---- MODULE Spec2Model ----
(***************************************************************************)
(* The Astroport concentrated-liquidity pair (contracts/pair_concentrated) *)
(* as a state machine.  The entry points instantiate, reply, swap,         *)
(* provide_liquidity, withdraw_liquidity and update_config are translated  *)
(* from src/contracts/pair_concentrated/src/contract.rs.  The pool-state   *)
(* methods and the math they call (state.rs, math.rs, utils.rs) are not    *)
(* among the source files; they are modelled from spec.md and marked so.   *)
(*                                                                         *)
(* Fixed-point values.  TLC integers are 32 bits wide, so a Decimal is     *)
(* held as an integer count of a unit chosen per quantity:                 *)
(*   amp                       tenths           (0.4    is 4)              *)
(*   gamma                     units of 1e-7    (0.02   is 200000)         *)
(*   prices, amounts, xcp, D   units of 1/ONE                              *)
(*   MAX_CHANGE                percent          (0.1    is 10)             *)
(* Products are formed by MulDiv, which never overflows.                   *)
(***************************************************************************)
EXTENDS Integers, Sequences, FiniteSets, TLC

VARIABLES
    CONFIG,     \* the CONFIG storage item: <<>> before instantiate, else <<Config>>
    now,        \* env.block.time.seconds()
    bank,       \* the pool's balance of each asset, in the asset's own units
    lp,         \* LP token holdings: of the pool contract and of the users
    calls,      \* the number of swaps, deposits and withdrawals carried out
    last,       \* the outcome of the last entry-point call
    applied,    \* a function applied on its own: its name, arguments and result
    staking,    \* the staking contract: the bank's balances of ASTRO and xASTRO
    factory,    \* the factory contract: its CONFIG, PAIR_CONFIGS, PAIRS and TMP_PAIR_INFO
    token,      \* the xASTRO token: TOKEN_INFO, BALANCES, allowances, TOTAL_SUPPLY_HISTORY
    oracle      \* the oracle contract: PRICE_LAST and the block time it sees

vars == <<CONFIG, now, bank, lp, calls, last, applied, staking, factory, token, oracle>>

\* the state of the pair contract, and of the other contracts
pair_vars == <<CONFIG, now, bank, lp, calls, last, applied>>
others == <<staking, factory, token, oracle>>

None == "none"

(***************************************************************************)
(* Program constants (consts.rs).                                          *)
(***************************************************************************)
AMP_MIN == 4
AMP_MAX == 4000000
GAMMA_MIN == 1
GAMMA_MAX == 200000
\* an hour in place of the day
MIN_AMP_CHANGING_TIME_hour == 60 * 60
MIN_AMP_CHANGING_TIME == 86400
MAX_CHANGE == 10
INSTANTIATE_TOKEN_REPLY_ID == 1

(***************************************************************************)
(* Bounds of the model.                                                    *)
(***************************************************************************)
\* fractional decimal digits kept for prices, amounts and ratios
DecimalPlaces == 6
\* Decimal::one() in those units
ONE == 10 ^ DecimalPlaces
\* block time runs from StartTime to MaxDays days after it
StartTime == 1000
MaxDays == 1
\* swaps, deposits and withdrawals carried out in one behaviour
MaxCalls == 3
\* every quantity stays below PriceCap
PriceCap == 2 ^ 29

HalfDay == MIN_AMP_CHANGING_TIME \div 2
MaxTime == StartTime + MaxDays * MIN_AMP_CHANGING_TIME

(***************************************************************************)
(* Arithmetic helpers.                                                     *)
(***************************************************************************)
Min(a, b) == IF a <= b THEN a ELSE b
Max(a, b) == IF a >= b THEN a ELSE b
AbsDiff(a, b) == IF a >= b THEN a - b ELSE b - a

\* <<q, r>> with a * b = q * c + r and 0 <= r < c, for 0 <= a < c, by descent
\* on the digits of b in a base with base * c <= 2^30, so that no intermediate
\* overflows; a quotient beyond PriceCap is held at PriceCap.
RECURSIVE MulDivDigits(_, _, _, _)
MulDivDigits(a, b, c, base) ==
    IF b = 0 THEN <<0, 0>>
    ELSE LET h == MulDivDigits(a, b \div base, c, base)
             low == base * h[2] + a * (b % base)
         IN  <<IF h[1] >= PriceCap \div base THEN PriceCap
               ELSE Min(base * h[1] + low \div c, PriceCap),
               low % c>>

\* <<q, r>> with a * b = q * c + r and 0 <= r < c, for a, b >= 0 and
\* 0 < c <= PriceCap
MulDivRem(a, b, c) ==
    LET whole == a \div c
        part == MulDivDigits(a % c, b, c, Max(2, Min(2 ^ 15, (2 ^ 30) \div c)))
    IN  <<IF whole > 0 /\ b > PriceCap \div whole THEN PriceCap
          ELSE Min(whole * b + part[1], PriceCap),
          part[2]>>

\* floor(a * b / c): Decimal multiplication and division truncate.
MulDiv(a, b, c) == IF c > 0 /\ a < b THEN MulDivRem(b, a, c)[1] ELSE MulDivRem(a, b, c)[1]

\* Newton's descent to floor(sqrt(a * b)) from a start s at or above it
RECURSIVE SqrtFrom(_, _, _)
SqrtFrom(a, b, s) ==
    LET next == (s + MulDiv(a, b, s)) \div 2
    IN  IF next >= s THEN s ELSE SqrtFrom(a, b, next)

\* floor(sqrt(a * b))
GeoMean(a, b) == IF a = 0 \/ b = 0 THEN 0 ELSE SqrtFrom(a, b, Max(a, b))

(***************************************************************************)
(* Parameter ranges (consts.rs); fee_gamma is in units of 1e-8.            *)
(***************************************************************************)
MIN_FEE == ONE \div 1000
MAX_FEE == ONE \div 2

FEE_GAMMA_MIN == 1
FEE_GAMMA_MAX == 2000000
REPEG_PROFIT_THRESHOLD_MIN == 0
REPEG_PROFIT_THRESHOLD_MAX == ONE \div 100

PRICE_SCALE_DELTA_MIN == 1
PRICE_SCALE_DELTA_MAX == ONE
MA_HALF_TIME_MAX == 7 * 86400

(***************************************************************************)
(* Results.  A fallible call returns [ok, err, v]; an entry point returns  *)
(* [ok, err, saved, config]: saved says whether CONFIG.save had run when   *)
(* the entry point returned, config is what it wrote (or its local copy).  *)
(***************************************************************************)
Ok(v) == [ok |-> TRUE, err |-> "", v |-> v]
Err(e, v) == [ok |-> FALSE, err |-> e, v |-> v]

Returned(ok, err, saved, config) ==
    [ok |-> ok, err |-> err, saved |-> saved, config |-> config]

(***************************************************************************)
(* AmpGamma and the promotion state machine (spec.md 4.2).                 *)
(***************************************************************************)
\* AmpGamma::default(): a constructor without arguments, the zero pair
AmpGamma_default == [amp |-> 0, gamma |-> 0]

\* AmpGamma::new(amp, gamma)?: both within their bound ranges
AmpGamma_new(amp, gamma) ==
    IF amp < AMP_MIN \/ amp > AMP_MAX THEN Err("IncorrectPoolParam", AmpGamma_default)
    ELSE IF gamma < GAMMA_MIN \/ gamma > GAMMA_MAX
         THEN Err("IncorrectPoolParam", AmpGamma_default)
         ELSE Ok([amp |-> amp, gamma |-> gamma])

\* initial + (future - initial) * passed / total, on unsigned decimals
Interpolate(from, to, passed, total) ==
    IF to >= from THEN from + MulDiv(to - from, passed, total)
                  ELSE from - MulDiv(from - to, passed, total)

\* get_amp_gamma with the interpolation saturating at initial when future < initial
get_amp_gamma_saturating(self, t) ==
    IF t <= self.initial_time THEN self.initial
    ELSE IF t >= self.future_time THEN self.future
    ELSE LET total == self.future_time - self.initial_time
             passed == t - self.initial_time
             Up(from, to) == IF to >= from THEN from + MulDiv(to - from, passed, total)
                                           ELSE from
         IN  [amp |-> Up(self.initial.amp, self.future.amp),
              gamma |-> Up(self.initial.gamma, self.future.gamma)]

\* PoolState::get_amp_gamma: a pure read of the pool state at block time t
get_amp_gamma(self, t) ==
    IF t <= self.initial_time THEN self.initial
    ELSE IF t >= self.future_time THEN self.future
    ELSE LET total == self.future_time - self.initial_time
             passed == t - self.initial_time
         IN  [amp |-> Interpolate(self.initial.amp, self.future.amp, passed, total),
              gamma |-> Interpolate(self.initial.gamma, self.future.gamma, passed, total)]

\* the relative change from cur to next is at most MAX_CHANGE (percent)
WithinMaxChange(cur, next) == AbsDiff(next, cur) * 100 <= cur * MAX_CHANGE

\* a promotion is in progress at block time t
Promoting(self, t) == t < self.future_time

\* PoolState::promote_params(env, PromoteParams {next_amp, next_gamma, future_time})
promote_params(self, t, p) ==
    IF Promoting(self, t) THEN Err("PromotionInProgress", self)
    ELSE IF p.future_time < t + MIN_AMP_CHANGING_TIME
         THEN Err("MinChangingTimeAssertion", self)
    ELSE LET next == AmpGamma_new(p.next_amp, p.next_gamma)
             cur == get_amp_gamma(self, t)
         IN  IF ~next.ok THEN Err(next.err, self)
             ELSE IF ~WithinMaxChange(cur.amp, next.v.amp)
                     \/ ~WithinMaxChange(cur.gamma, next.v.gamma)
                  THEN Err("MaxChangeAssertion", self)
                  ELSE Ok([self EXCEPT !.initial = cur,
                                       !.initial_time = t,
                                       !.future = next.v,
                                       !.future_time = p.future_time])

\* PoolState::stop_promotion(env): cannot fail (its caller takes no Result)
stop_promotion(self, t) ==
    LET cur == get_amp_gamma(self, t)
    IN  [self EXCEPT !.initial = cur, !.future = cur, !.future_time = t]

(***************************************************************************)
(* PoolParams::update_params: each given field is validated and set.       *)
(***************************************************************************)
PoolParams_default ==
    [mid_fee |-> 0, out_fee |-> 0, fee_gamma |-> 0, repeg_profit_threshold |-> 0,
     min_price_scale_delta |-> 0, ma_half_time |-> 0]

\* An Option is a sequence: <<>> is None and <<v>> is Some(v).
Some(v) == <<v>>
Given(u, f) == u[f] # <<>>
Merged(self, u) == [f \in DOMAIN self |-> IF Given(u, f) THEN u[f][1] ELSE self[f]]

PoolParamsValid(p) ==
    /\ MIN_FEE <= p.mid_fee /\ p.mid_fee <= MAX_FEE
    /\ MIN_FEE <= p.out_fee /\ p.out_fee <= MAX_FEE
    /\ p.mid_fee <= p.out_fee
    /\ FEE_GAMMA_MIN <= p.fee_gamma /\ p.fee_gamma <= FEE_GAMMA_MAX
    /\ REPEG_PROFIT_THRESHOLD_MIN <= p.repeg_profit_threshold
    /\ p.repeg_profit_threshold <= REPEG_PROFIT_THRESHOLD_MAX
    /\ PRICE_SCALE_DELTA_MIN <= p.min_price_scale_delta
    /\ p.min_price_scale_delta <= PRICE_SCALE_DELTA_MAX
    /\ 0 <= p.ma_half_time /\ p.ma_half_time <= MA_HALF_TIME_MAX

update_params(self, u) ==
    IF PoolParamsValid(Merged(self, u)) THEN Ok(Merged(self, u))
    ELSE Err("IncorrectPoolParam", self)

(***************************************************************************)
(* instantiate (contract.rs 51-151) and reply (154-181).                   *)
(***************************************************************************)
FactoryOwner == "owner"
LpToken == "lp_token"

PriceState_new(params, t) ==
    [oracle_price |-> params.price_scale,
     last_price |-> params.price_scale,
     price_scale |-> params.price_scale,
     last_price_update |-> t,
     xcp_profit |-> 0,
     xcp |-> 0]

\* instantiate with initial and future exchanged
instantiate_pool_state_exchanged(params, amp_gamma, t) ==
    [initial |-> amp_gamma, future |-> AmpGamma_default,
     future_time |-> t, initial_time |-> 0,
     price_state |-> PriceState_new(params, t)]

\* instantiate with the two times exchanged
instantiate_pool_state_times_exchanged(params, amp_gamma, t) ==
    [initial |-> AmpGamma_default, future |-> amp_gamma,
     future_time |-> 0, initial_time |-> t,
     price_state |-> PriceState_new(params, t)]

\* instantiate starting price_scale at Decimal::one() whatever was supplied
instantiate_pool_state_unit_price(params, amp_gamma, t) ==
    [initial |-> AmpGamma_default, future |-> amp_gamma,
     future_time |-> t, initial_time |-> 0,
     price_state |-> [PriceState_new(params, t) EXCEPT !.price_scale = ONE]]

\* the PoolState literal of instantiate
instantiate_pool_state(params, amp_gamma, t) ==
    [initial |-> AmpGamma_default,
     future |-> amp_gamma,
     future_time |-> t,
     initial_time |-> 0,
     price_state |-> PriceState_new(params, t)]

\* instantiate without its test of price_scale
instantiate_price_scale_unchecked(params) == params.price_scale < 0

\* params.price_scale.is_zero() (contract.rs 68)
instantiate_price_scale_is_zero(params) == params.price_scale = 0

\* msg: [asset_count, init_params]; init_params is an Option of
\* ConcentratedPoolParams.  Returns an entry-point result.
instantiate(t, msg) ==
    IF msg.asset_count # 2 THEN Returned(FALSE, "asset_infos must contain exactly two elements", FALSE, <<>>)
    ELSE IF msg.init_params = <<>> THEN Returned(FALSE, "InitParamsNotFound", FALSE, <<>>)
    ELSE LET params == msg.init_params[1]
             pool_params == update_params(PoolParams_default,
                 [mid_fee |-> Some(params.mid_fee),
                  out_fee |-> Some(params.out_fee),
                  fee_gamma |-> Some(params.fee_gamma),
                  repeg_profit_threshold |-> Some(params.repeg_profit_threshold),
                  min_price_scale_delta |-> Some(params.min_price_scale_delta),
                  ma_half_time |-> Some(params.ma_half_time)])
             future == AmpGamma_new(params.amp, params.gamma)
         IN  IF instantiate_price_scale_is_zero(params)
             THEN Returned(FALSE, "Initial price scale can not be zero", FALSE, <<>>)
             ELSE IF ~pool_params.ok THEN Returned(FALSE, pool_params.err, FALSE, <<>>)
             ELSE IF ~future.ok THEN Returned(FALSE, future.err, FALSE, <<>>)
             ELSE Returned(TRUE, "", TRUE,
                    <<[liquidity_token |-> "",
                       block_time_last |-> t,
                       cumulative_prices |-> <<0, 0>>,
                       pool_params |-> pool_params.v,
                       pool_state |-> instantiate_pool_state(params, future.v, t),
                       owner |-> None]>>)

\* reply: [id, data]; data is an Option of the instantiated token's address
\* response data that parse_instantiate_response_data does not accept
Unparsable == "unparsable"

\* reply storing the address whatever liquidity_token holds
reply_overwriting(config, msg) ==
    IF msg.id = INSTANTIATE_TOKEN_REPLY_ID /\ msg.data # <<>>
    THEN IF msg.data[1] = Unparsable
         THEN Returned(FALSE, "Generic", FALSE, <<config>>)
         ELSE Returned(TRUE, "", TRUE, <<[config EXCEPT !.liquidity_token = msg.data[1]]>>)
    ELSE Returned(FALSE, "FailedToParseReply", FALSE, <<config>>)

reply(config, msg) ==
    IF msg.id = INSTANTIATE_TOKEN_REPLY_ID /\ msg.data # <<>>
    THEN IF config.liquidity_token # ""
         THEN Returned(FALSE, "Unauthorized", FALSE, <<config>>)
         ELSE IF msg.data[1] = Unparsable
         THEN Returned(FALSE, "Generic", FALSE, <<config>>)
         ELSE Returned(TRUE, "", TRUE, <<[config EXCEPT !.liquidity_token = msg.data[1]]>>)
    ELSE Returned(FALSE, "FailedToParseReply", FALSE, <<config>>)

(***************************************************************************)
(* update_config (contract.rs 753-784).                                    *)
(***************************************************************************)
\* the owner check: config.owner, or the factory's owner when it is unset
update_config_owner(config) ==
    IF config.owner # None THEN config.owner ELSE FactoryOwner

\* the Update arm with the Result of update_params dropped
update_config_update_unchecked(config, update) ==
    Returned(TRUE, "", TRUE, <<[config EXCEPT !.pool_params = Merged(config.pool_params, update)]>>)

\* the Update arm of the match on the parsed params
update_config_update(config, update) ==
    LET r == update_params(config.pool_params, update)
    IN  IF ~r.ok THEN Returned(FALSE, r.err, FALSE, <<config>>)
        ELSE Returned(TRUE, "", TRUE, <<[config EXCEPT !.pool_params = r.v]>>)

\* the Promote arm with the Result of promote_params dropped
update_config_promote_unchecked(config, t, promote) ==
    Returned(TRUE, "", TRUE,
             <<[config EXCEPT !.pool_state = promote_params(config.pool_state, t, promote).v]>>)

\* the Promote arm: promote_params(&env, promote_params)?, then CONFIG.save
update_config_promote(config, t, promote) ==
    LET r == promote_params(config.pool_state, t, promote)
    IN  IF ~r.ok THEN Returned(FALSE, r.err, FALSE, <<config>>)
        ELSE Returned(TRUE, "", TRUE, <<[config EXCEPT !.pool_state = r.v]>>)

\* the StopChangingAmpGamma arm saving the config as it was loaded
update_config_stop_unapplied(config, t) == Returned(TRUE, "", TRUE, <<config>>)

\* the StopChangingAmpGamma arm: stop_promotion(&env), then CONFIG.save
update_config_stop(config, t) ==
    Returned(TRUE, "", TRUE,
             <<[config EXCEPT !.pool_state = stop_promotion(config.pool_state, t)]>>)

\* params: [kind, update, promote], kind one of the variants of
\* ConcentratedPoolUpdateParams, or "Malformed" for a Binary that does not parse
update_config(config, t, sender, params) ==
    IF sender # update_config_owner(config)
    THEN Returned(FALSE, "Unauthorized", FALSE, <<config>>)
    ELSE IF params.kind = "Update" THEN update_config_update(config, params.update)
    ELSE IF params.kind = "Promote" THEN update_config_promote(config, t, params.promote)
    ELSE IF params.kind = "StopChangingAmpGamma" THEN update_config_stop(config, t)
    ELSE Returned(FALSE, "ParseErr", FALSE, <<config>>)

(***************************************************************************)
(* Decimal conversions and the solver (math.rs and the Decimal256 helpers  *)
(* are not among the sources; spec.md 3 and 4.1).  The curve equation is   *)
(* not given, so the solver is taken at the two ends of its family,        *)
(* constant sum and constant product, and each call site may fail to       *)
(* converge: a handler receives solver = [curve, fail_at, step].           *)
(***************************************************************************)
\* Decimal256::with_precision(value, precision)
with_precision(value, precision) == MulDiv(value, ONE, 10 ^ precision)

\* Decimal256Ext::to_uint(precision): floor(dec * 10^precision), an error when
\* that is beyond the integer type
to_uint(dec, precision) ==
    IF MulDiv(dec, 10 ^ precision, ONE) >= PriceCap THEN Err("ConversionOverflowError", 0)
    ELSE Ok(MulDiv(dec, 10 ^ precision, ONE))

\* Decimal256::sqrt
sqrt(value) == GeoMean(value, ONE)

\* the solver as the call site number site of a handler sees it
At(solver, site) == [curve |-> solver.curve, converged |-> solver.fail_at # site]

\* calc_d(xs, amp_gamma): zero balances are rejected, the iteration may not
\* converge, else D lies on the curve
calc_d(xs, amp_gamma, solver) ==
    IF xs[1] = 0 \/ xs[2] = 0 THEN Err("calc_d: zero balance", 0)
    ELSE IF ~solver.converged THEN Err("calc_d is not converging", 0)
    ELSE IF solver.curve = "sum" THEN Ok(xs[1] + xs[2])
    ELSE Ok(2 * GeoMean(xs[1], xs[2]))

\* the ask-side balance y with calc_d(<<x, y>>) = d
calc_y(x, d, solver) ==
    IF x = 0 THEN Err("calc_y: zero balance", 0)
    ELSE IF ~solver.converged THEN Err("calc_y is not converging", 0)
    ELSE IF solver.curve = "sum" THEN Ok(Max(d - x, 0))
    ELSE Ok(MulDiv(d \div 2, d \div 2, x))

\* get_xcp(d, price_scale) = d / (2 * sqrt(price_scale))
get_xcp(d, price_scale) == MulDiv(d, ONE, 2 * sqrt(price_scale))

(***************************************************************************)
(* The fee model (spec.md 4.4).  fee_gamma is in units of 1e-8.            *)
(***************************************************************************)
\* the imbalance of xs in units of 1e-8: zero at an even split, towards 1 as
\* one side vanishes
balance_skew(xs) ==
    LET r == MulDiv(AbsDiff(xs[1], xs[2]), 10000, xs[1] + xs[2])
    IN  r * r

\* the coefficient with the skew set against fee_gamma alone
fee_coefficient_unbounded(xs, pool_params) ==
    MulDiv(balance_skew(xs), ONE, pool_params.fee_gamma)

\* g = balance_skew / (balance_skew + fee_gamma)
fee_coefficient(xs, pool_params) ==
    MulDiv(balance_skew(xs), ONE, balance_skew(xs) + pool_params.fee_gamma)

compute_fee(xs, pool_params) ==
    pool_params.mid_fee
        + MulDiv(pool_params.out_fee - pool_params.mid_fee, fee_coefficient(xs, pool_params), ONE)

\* calc_provide_fee: the fee rate at the pool's balances, in proportion to how
\* far the deposit is from an even one
calc_provide_fee(deposits, xp, pool_params) ==
    LET sum == deposits[1] + deposits[2]
        avg == sum \div 2
        deviation == AbsDiff(deposits[1], avg) + AbsDiff(deposits[2], avg)
    IN  MulDiv(compute_fee(xp, pool_params), deviation, 2 * sum)

(***************************************************************************)
(* The price and repeg engine (state.rs is not among the sources;          *)
(* spec.md 4.3).  The size of the step towards the oracle price is not     *)
(* given: the candidate lies 1/step of the way, step an input of the call. *)
(* The profit of a candidate is its xcp per LP share: total_lp is the xcp  *)
(* at which xcp_profit was set to one, scaled by every later deposit and   *)
(* withdrawal.                                                             *)
(***************************************************************************)
\* 0.5 ^ (elapsed / half_time): whole halvings, then a straight line across
\* the remaining fraction of a half time
half_pow(elapsed, half_time) ==
    IF elapsed = 0 THEN ONE
    ELSE IF half_time = 0 \/ elapsed \div half_time > 30 THEN 0
    ELSE LET whole == ONE \div (2 ^ (elapsed \div half_time))
         IN  whole - MulDiv(whole \div 2, elapsed % half_time, half_time)

\* the exponent elapsed / half_time of the decay cannot be formed
half_pow_divides_by_zero(elapsed, half_time) == elapsed # 0 /\ half_time = 0

\* the blend weighing the previous average by 1 - decay
blend_exchanged(price_state, pool_params, t, cur_price) ==
    MulDiv(price_state.oracle_price,
           ONE - half_pow(t - price_state.last_price_update, pool_params.ma_half_time), ONE)
    + MulDiv(cur_price, half_pow(t - price_state.last_price_update, pool_params.ma_half_time), ONE)

\* step 1: the moving average takes in the trade's price
blend(price_state, pool_params, t, cur_price) ==
    LET decay == half_pow(t - price_state.last_price_update, pool_params.ma_half_time)
    IN  MulDiv(price_state.oracle_price, decay, ONE) + MulDiv(cur_price, ONE - decay, ONE)

\* step 4: a candidate is adopted when its profit reaches the gate
profit_gate(xcp_profit_new, xcp_profit, pool_params) ==
    xcp_profit_new >= MulDiv(xcp_profit, ONE + pool_params.repeg_profit_threshold, ONE)

\* update_price with the gate left out: every candidate is adopted
update_price_ungated(self, pool_params, t, total_lp, cur_xs, cur_price, solver, site) ==
    LET price_state == self.price_state
        oracle_price == blend(price_state, pool_params, t, cur_price)
        price_scale_new == price_state.price_scale
            + (oracle_price - price_state.price_scale) \div solver.step
        xs == <<cur_xs[1], MulDiv(cur_xs[2], price_scale_new, price_state.price_scale)>>
        new_d == calc_d(xs, get_amp_gamma(self, t), At(solver, site + 1))
    IN  IF price_scale_new = 0 \/ total_lp = 0 \/ ~new_d.ok
        THEN Err("update_price", [pool_state |-> self, candidate |-> <<>>])
        ELSE LET xcp_profit == MulDiv(get_xcp(new_d.v, price_scale_new), ONE, total_lp)
             IN  Ok([pool_state |-> [self EXCEPT !.price_state =
                        [price_state EXCEPT !.oracle_price = oracle_price,
                                            !.last_price = cur_price,
                                            !.last_price_update = t,
                                            !.price_scale = price_scale_new,
                                            !.xcp = get_xcp(new_d.v, price_scale_new),
                                            !.xcp_profit = Max(xcp_profit, @)]],
                     candidate |-> <<[price_scale |-> price_scale_new,
                                      xcp_profit |-> xcp_profit]>>])

\* update_price(&pool_params, &env, total_lp, &xs, last_price).  The value is
\* [pool_state, candidate]: candidate is <<>> when no move was tried, else the
\* price_scale tried and the xcp_profit it would give.  site numbers the first
\* of its two solver calls.
update_price(self, pool_params, t, total_lp, cur_xs, cur_price, solver, site) ==
    LET price_state == self.price_state
        amp_gamma == get_amp_gamma(self, t)
        oracle_price == blend(price_state, pool_params, t, cur_price)
        blended == [price_state EXCEPT !.oracle_price = oracle_price,
                                       !.last_price = cur_price,
                                       !.last_price_update = t]
        cur_d == calc_d(cur_xs, amp_gamma, At(solver, site))
        norm == MulDiv(AbsDiff(oracle_price, price_state.price_scale), ONE,
                       price_state.price_scale)
        price_scale_new == price_state.price_scale
            + (oracle_price - price_state.price_scale) \div solver.step
        xs == <<cur_xs[1], MulDiv(cur_xs[2], price_scale_new, price_state.price_scale)>>
        new_d == calc_d(xs, amp_gamma, At(solver, site + 1))
        failed(e) == Err(e, [pool_state |-> self, candidate |-> <<>>])
    IN  IF half_pow_divides_by_zero(t - price_state.last_price_update, pool_params.ma_half_time)
        THEN failed("Divide by zero")
        ELSE IF ~cur_d.ok THEN failed(cur_d.err)
        ELSE IF norm < pool_params.min_price_scale_delta
        THEN Ok([pool_state |-> [self EXCEPT !.price_state =
                    [blended EXCEPT !.xcp = get_xcp(cur_d.v, price_state.price_scale)]],
                 candidate |-> <<>>])
        ELSE IF price_scale_new = 0 \/ total_lp = 0 THEN failed("Division by zero")
        ELSE IF ~new_d.ok THEN failed(new_d.err)
        ELSE LET xcp_candidate == get_xcp(new_d.v, price_scale_new)
                 xcp_profit == MulDiv(xcp_candidate, ONE, total_lp)
                 candidate == <<[price_scale |-> price_scale_new, xcp_profit |-> xcp_profit]>>
             IN  IF profit_gate(xcp_profit, price_state.xcp_profit, pool_params)
                 THEN Ok([pool_state |-> [self EXCEPT !.price_state =
                             [blended EXCEPT !.price_scale = price_scale_new,
                                             !.xcp = xcp_candidate,
                                             !.xcp_profit = xcp_profit]],
                          candidate |-> candidate])
                 ELSE Ok([pool_state |-> [self EXCEPT !.price_state =
                             [blended EXCEPT !.xcp = get_xcp(cur_d.v, price_state.price_scale)]],
                          candidate |-> candidate])

\* accumulate_prices(&env, &mut config, price): the cumulative prices of both
\* directions, kept to one decimal place, grow by price * elapsed seconds
accumulate_prices(t, config, price) ==
    LET elapsed == t - config.block_time_last
        tenths(p) == p \div (ONE \div 10)
    IN  IF elapsed = 0 \/ price = 0 THEN config
        ELSE [config EXCEPT
                !.cumulative_prices = <<@[1] + elapsed * tenths(price),
                                        @[2] + elapsed * tenths(MulDiv(ONE, ONE, price))>>,
                !.block_time_last = t]

(***************************************************************************)
(* The swap engine (utils.rs is not among the sources; spec.md 4.5).       *)
(* Assets are numbered 1 and 2; price_scale brings asset 2 into the unit   *)
(* of asset 1.                                                             *)
(***************************************************************************)
DEFAULT_SLIPPAGE == ONE \div 20
MAX_ALLOWED_SLIPPAGE == ONE \div 2
LP_TOKEN_PRECISION == 6
MINIMUM_LIQUIDITY_AMOUNT == 1000

\* the decimals of the two assets, as store_precisions recorded them
Precisions == <<6, 5>>

\* query_fee_info: the factory's fee settings for this pair type
FeeInfo == [fee_address |-> Some("maker"), maker_fee_rate |-> ONE \div 4]

before_swap_check(pools, offer_amount) ==
    IF offer_amount = 0 THEN Err("InvalidZeroAmount", 0)
    ELSE IF pools[1] = 0 \/ pools[2] = 0 THEN Err("Pools are empty", 0)
    ELSE Ok(0)

\* compute_swap(&xs, offer_amount, ask_ind, &config, &env, maker_fee_share):
\* the output that keeps D, less the fee; solver sites 1 and 2
compute_swap(xs, offer_amount, ask_ind, config, t, maker_fee_share, solver) ==
    LET offer_ind == 3 - ask_ind
        price_scale == config.pool_state.price_state.price_scale
        internal(i, v) == IF i = 2 THEN MulDiv(v, price_scale, ONE) ELSE v
        external(i, v) == IF i = 2 THEN MulDiv(v, ONE, price_scale) ELSE v
        ixs == <<xs[1], internal(2, xs[2])>>
        d == calc_d(ixs, get_amp_gamma(config.pool_state, t), At(solver, 1))
        offered == ixs[offer_ind] + internal(offer_ind, offer_amount)
        y == calc_y(offered, d.v, At(solver, 2))
        none == [dy |-> 0, spread_fee |-> 0, maker_fee |-> 0, total_fee |-> 0]
    IN  IF ~d.ok THEN Err(d.err, none)
        ELSE IF ~y.ok THEN Err(y.err, none)
        ELSE IF y.v = 0 \/ y.v >= ixs[ask_ind] THEN Err("Insufficient liquidity", none)
        ELSE LET ideal == external(ask_ind, ixs[ask_ind] - y.v)
                 after == [ixs EXCEPT ![offer_ind] = offered, ![ask_ind] = y.v]
                 total_fee == MulDiv(compute_fee(after, config.pool_params), ideal, ONE)
                 at_price_scale == IF offer_ind = 1 THEN MulDiv(offer_amount, ONE, price_scale)
                                   ELSE MulDiv(offer_amount, price_scale, ONE)
             IN  Ok([dy |-> ideal - total_fee,
                     spread_fee |-> Max(at_price_scale - ideal, 0),
                     maker_fee |-> MulDiv(total_fee, maker_fee_share, ONE),
                     total_fee |-> total_fee])

\* SwapResult::calc_last_prices: <<last_price, last_real_price>>, the price
\* of asset 2 in asset 1 before the fee and as the trader got it
calc_last_prices(swap_result, offer_amount, offer_ind) ==
    LET before_fee == swap_result.dy + swap_result.total_fee
    IN  IF swap_result.dy = 0 THEN Err("Division by zero", <<0, 0>>)
        ELSE IF offer_ind = 1
        THEN Ok(<<MulDiv(offer_amount, ONE, before_fee), MulDiv(offer_amount, ONE, swap_result.dy)>>)
        ELSE Ok(<<MulDiv(before_fee, ONE, offer_amount), MulDiv(swap_result.dy, ONE, offer_amount)>>)

\* assert_max_spread(belief_price, max_spread, offer_amount, return_amount,
\* spread_amount); the two Options are sequences
assert_max_spread(belief_price, max_spread, offer_amount, return_amount, spread_amount) ==
    LET max == IF max_spread = <<>> THEN DEFAULT_SLIPPAGE ELSE max_spread[1]
        expected == MulDiv(offer_amount, ONE, belief_price[1])
    IN  IF max > MAX_ALLOWED_SLIPPAGE THEN Err("AllowedSpreadAssertion", 0)
        ELSE IF belief_price # <<>>
        THEN IF belief_price[1] = 0 THEN Err("Division by zero", 0)
             ELSE IF return_amount < expected
                     /\ MulDiv(expected - return_amount, ONE, expected) > max
             THEN Err("MaxSpreadAssertion", 0)
             ELSE Ok(0)
        ELSE IF return_amount + spread_amount > 0
                /\ MulDiv(spread_amount, ONE, return_amount + spread_amount) > max
        THEN Err("MaxSpreadAssertion", 0)
        ELSE Ok(0)

\* get_share_in_assets(&pools, amount, total_share): each balance in the
\* proportion amount / total_share
get_share_in_assets(pools, amount, total_share) ==
    LET share_ratio == IF total_share = 0 THEN 0 ELSE MulDiv(amount, ONE, total_share)
    IN  <<MulDiv(pools[1], share_ratio, ONE), MulDiv(pools[2], share_ratio, ONE)>>

(***************************************************************************)
(* swap, provide_liquidity and withdraw_liquidity (contract.rs 356-747).   *)
(* balances are the pool's token balances before the call's funds arrive   *)
(* and total_share the LP supply, both as the chain holds them.  A handler *)
(* returns [ok, err, saved, config, messages, price]: messages are the     *)
(* transfers, mints and burn of its Response, price is <<>> unless         *)
(* update_price ran and then holds its candidate.                          *)
(***************************************************************************)
NoMessages == [out |-> <<0, 0>>, mint |-> <<0, 0>>, burn |-> 0]

\* Ok(Response) after CONFIG.save; after_save lists the fallible steps that
\* ran between CONFIG.save and the return
Response(config, messages, price, after_save) ==
    [ok |-> TRUE, err |-> "", saved |-> TRUE, config |-> <<config>>,
     messages |-> messages, price |-> price, after_save |-> after_save]

\* an error returned before CONFIG.save
ContractError(e, config) ==
    [ok |-> FALSE, err |-> e, saved |-> FALSE, config |-> <<config>>,
     messages |-> NoMessages, price |-> <<>>, after_save |-> <<>>]

\* an error returned after CONFIG.save, by the step named
ErrorAfterSave(e, config, step) ==
    [ok |-> FALSE, err |-> e, saved |-> TRUE, config |-> <<config>>,
     messages |-> NoMessages, price |-> <<>>, after_save |-> <<step>>]

\* query_pools: the balances as Decimals at each asset's precision
query_pools(balances) ==
    <<with_precision(balances[1], Precisions[1]), with_precision(balances[2], Precisions[2])>>

\* swap's price update with every candidate adopted
swap_update_price_adopting(config, t, total_share, xs, last_price, solver) ==
    update_price_ungated(config.pool_state, config.pool_params, t,
                         with_precision(total_share, LP_TOKEN_PRECISION),
                         [xs EXCEPT ![2] = MulDiv(@, config.pool_state.price_state.price_scale,
                                                  ONE)],
                         last_price, solver, 3)

\* swap's price update (contract.rs 689-705): the supply as a Decimal, asset 2
\* in the internal unit, then update_price on the loaded config
swap_update_price(config, t, total_share, xs, last_price, solver) ==
    update_price(config.pool_state, config.pool_params, t,
                 with_precision(total_share, LP_TOKEN_PRECISION),
                 [xs EXCEPT ![2] = MulDiv(@, config.pool_state.price_state.price_scale, ONE)],
                 last_price, solver, 3)

\* the end of swap with the whole fee sent out of the pool with the maker's
\* part
swap_priced_fee_sent(config, t, ask_ind, swap_result, last_real_price, updated) ==
    LET return_amount == to_uint(swap_result.dy, Precisions[ask_ind])
        maker_fee == to_uint(swap_result.maker_fee, Precisions[ask_ind])
        saved == accumulate_prices(t, [config EXCEPT !.pool_state = updated.v.pool_state],
                                   last_real_price)
        commission_amount == to_uint(swap_result.total_fee, Precisions[ask_ind])
    IN  IF ~updated.ok THEN ContractError(updated.err, config)
        ELSE IF ~return_amount.ok THEN ContractError(return_amount.err, config)
        ELSE IF ~maker_fee.ok THEN ContractError(maker_fee.err, config)
        ELSE IF ~commission_amount.ok
        THEN ErrorAfterSave(commission_amount.err, saved, "total_fee.to_uint")
        ELSE Response(saved,
                      [NoMessages EXCEPT !.out[ask_ind] = return_amount.v + maker_fee.v
                                                            + commission_amount.v],
                      <<updated.v.candidate>>, <<"total_fee.to_uint">>)

\* the end of swap (contract.rs 707-746): the conversions, accumulate_prices
\* and CONFIG.save, then the commission attribute converted after the save
swap_priced(config, t, ask_ind, swap_result, last_real_price, updated) ==
    LET return_amount == to_uint(swap_result.dy, Precisions[ask_ind])
        maker_fee == to_uint(swap_result.maker_fee, Precisions[ask_ind])
        saved == accumulate_prices(t, [config EXCEPT !.pool_state = updated.v.pool_state],
                                   last_real_price)
        commission_amount == to_uint(swap_result.total_fee, Precisions[ask_ind])
    IN  IF ~updated.ok THEN ContractError(updated.err, config)
        ELSE IF ~return_amount.ok THEN ContractError(return_amount.err, config)
        ELSE IF ~maker_fee.ok THEN ContractError(maker_fee.err, config)
        ELSE IF ~commission_amount.ok
        THEN ErrorAfterSave(commission_amount.err, saved, "total_fee.to_uint")
        ELSE Response(saved,
                      [NoMessages EXCEPT !.out[ask_ind] = return_amount.v + maker_fee.v],
                      <<updated.v.candidate>>, <<"total_fee.to_uint">>)

\* swap going on to update_price whatever assert_max_spread returned
swap_computed_unasserted(config, t, total_share, offer_ind, offer_amount, pools, belief_price, max_spread, solver, swap_result) ==
    LET ask_ind == 3 - offer_ind
        xs == [pools EXCEPT ![offer_ind] = @ + offer_amount,
                            ![ask_ind] = @ - (swap_result.v.dy + swap_result.v.maker_fee)]
        spread_amount == to_uint(swap_result.v.spread_fee, Precisions[ask_ind])
        prices == calc_last_prices(swap_result.v, offer_amount, offer_ind)
    IN  IF ~swap_result.ok THEN ContractError(swap_result.err, config)
        ELSE IF ~spread_amount.ok THEN ContractError(spread_amount.err, config)
        ELSE IF config.liquidity_token = "" THEN ContractError("query_supply", config)
        ELSE IF ~prices.ok THEN ContractError(prices.err, config)
        ELSE swap_priced(config, t, ask_ind, swap_result.v, prices.v[2],
                         swap_update_price(config, t, total_share, xs, prices.v[1], solver))

\* swap once compute_swap has returned (contract.rs 677-705)
swap_computed(config, t, total_share, offer_ind, offer_amount, pools, belief_price, max_spread, solver, swap_result) ==
    LET ask_ind == 3 - offer_ind
        xs == [pools EXCEPT ![offer_ind] = @ + offer_amount,
                            ![ask_ind] = @ - (swap_result.v.dy + swap_result.v.maker_fee)]
        spread == assert_max_spread(belief_price, max_spread, offer_amount,
                                    swap_result.v.dy, swap_result.v.spread_fee)
        spread_amount == to_uint(swap_result.v.spread_fee, Precisions[ask_ind])
        prices == calc_last_prices(swap_result.v, offer_amount, offer_ind)
    IN  IF ~swap_result.ok THEN ContractError(swap_result.err, config)
        ELSE IF ~spread.ok THEN ContractError(spread.err, config)
        ELSE IF ~spread_amount.ok THEN ContractError(spread_amount.err, config)
        ELSE IF config.liquidity_token = "" THEN ContractError("query_supply", config)
        ELSE IF ~prices.ok THEN ContractError(prices.err, config)
        ELSE swap_priced(config, t, ask_ind, swap_result.v, prices.v[2],
                         swap_update_price(config, t, total_share, xs, prices.v[1], solver))

\* swap once the offer is known to be one of the pool's assets (contract.rs
\* 639-676); pools are the balances without the offer
swap_checked(config, t, total_share, offer_ind, offer_amount, pools, belief_price, max_spread, solver) ==
    LET checked == before_swap_check(pools, offer_amount)
        maker_fee_share == IF FeeInfo.fee_address # <<>> THEN FeeInfo.maker_fee_rate ELSE 0
    IN  IF ~checked.ok THEN ContractError(checked.err, config)
        ELSE swap_computed(config, t, total_share, offer_ind, offer_amount, pools,
                           belief_price, max_spread, solver,
                           compute_swap(pools, offer_amount, 3 - offer_ind, config, t,
                                        maker_fee_share, solver))

\* offer_asset: [ind, amount], ind = 0 for an asset that is not in the pool;
\* solver sites 1 to 4.  The pool's balance of the offered asset already
\* holds the offer, which is taken off again (contract.rs 644-654).
swap(config, t, balances, total_share, offer_asset, belief_price, max_spread, solver) ==
    IF offer_asset.ind \notin {1, 2} THEN ContractError("InvalidAsset", config)
    ELSE swap_checked(config, t, total_share, offer_asset.ind,
                      with_precision(offer_asset.amount, Precisions[offer_asset.ind]),
                      [query_pools([balances EXCEPT ![offer_asset.ind] = @ + offer_asset.amount])
                          EXCEPT ![offer_asset.ind] =
                              @ - with_precision(offer_asset.amount,
                                                 Precisions[offer_asset.ind])],
                      belief_price, max_spread, solver)

\* every deposit taken for the first
provide_liquidity_is_first_always(total_share) == total_share >= 0

\* the test that sends provide_liquidity into its first-deposit branch
provide_liquidity_is_first(total_share) == total_share = 0

\* the first deposit refused only below MINIMUM_LIQUIDITY_AMOUNT
provide_liquidity_first_zero_share(config, xcp) ==
    LET share == to_uint(xcp, LP_TOKEN_PRECISION)
    IN  IF ~share.ok THEN Err(share.err, 0)
        ELSE IF share.v < MINIMUM_LIQUIDITY_AMOUNT
        THEN Err("MinimumLiquidityAmountError", 0)
        ELSE Ok([mint |-> <<MINIMUM_LIQUIDITY_AMOUNT, share.v - MINIMUM_LIQUIDITY_AMOUNT>>,
                 config |-> [config EXCEPT !.pool_state.price_state.xcp_profit = ONE],
                 price |-> <<>>])

\* the first deposit leaving xcp_profit as instantiate set it
provide_liquidity_first_profit_unset(config, xcp) ==
    LET share == to_uint(xcp, LP_TOKEN_PRECISION)
    IN  IF ~share.ok THEN Err(share.err, 0)
        ELSE IF share.v <= MINIMUM_LIQUIDITY_AMOUNT
        THEN Err("MinimumLiquidityAmountError", 0)
        ELSE Ok([mint |-> <<MINIMUM_LIQUIDITY_AMOUNT, share.v - MINIMUM_LIQUIDITY_AMOUNT>>,
                 config |-> config,
                 price |-> <<>>])

\* the first deposit with the whole share minted to the receiver
provide_liquidity_first_unreserved(config, xcp) ==
    LET share == to_uint(xcp, LP_TOKEN_PRECISION)
    IN  IF ~share.ok THEN Err(share.err, 0)
        ELSE IF share.v <= MINIMUM_LIQUIDITY_AMOUNT
        THEN Err("MinimumLiquidityAmountError", 0)
        ELSE Ok([mint |-> <<0, share.v>>,
                 config |-> [config EXCEPT !.pool_state.price_state.xcp_profit = ONE],
                 price |-> <<>>])

\* the branch of the first deposit (contract.rs 425-447): <<mint to the
\* pool, mint to the receiver>> and the config as it leaves the branch
provide_liquidity_first(config, xcp) ==
    LET share == to_uint(xcp, LP_TOKEN_PRECISION)
    IN  IF ~share.ok THEN Err(share.err, 0)
        ELSE IF share.v <= MINIMUM_LIQUIDITY_AMOUNT
        THEN Err("MinimumLiquidityAmountError", 0)
        ELSE Ok([mint |-> <<MINIMUM_LIQUIDITY_AMOUNT, share.v - MINIMUM_LIQUIDITY_AMOUNT>>,
                 config |-> [config EXCEPT !.pool_state.price_state.xcp_profit = ONE],
                 price |-> <<>>])

\* a later deposit that moves the price (contract.rs 479-493)
provide_liquidity_priced(config, t, new_xp, total_share, share, last_price, solver) ==
    LET updated == update_price(config.pool_state, config.pool_params, t,
                                total_share + share, new_xp, last_price, solver, 3)
        minted == to_uint(share, LP_TOKEN_PRECISION)
    IN  IF ~updated.ok THEN Err(updated.err, 0)
        ELSE IF ~minted.ok THEN Err(minted.err, 0)
        ELSE Ok([mint |-> <<0, minted.v>>,
                 config |-> accumulate_prices(t,
                                [config EXCEPT !.pool_state = updated.v.pool_state], last_price),
                 price |-> <<updated.v.candidate>>])

\* a later deposit that never moves the price
provide_liquidity_accrued_unpriced(config, t, deposits, new_xp, total_share, share, solver) ==
    LET minted == to_uint(share, LP_TOKEN_PRECISION)
    IN  IF ~minted.ok THEN Err(minted.err, 0)
        ELSE Ok([mint |-> <<0, minted.v>>, config |-> config, price |-> <<>>])

\* a later deposit once its share is known (contract.rs 461-493)
provide_liquidity_accrued(config, t, deposits, new_xp, total_share, share, solver) ==
    LET price_scale == config.pool_state.price_state.price_scale
        share_ratio == MulDiv(share, ONE, total_share + share)
        balanced_share == <<MulDiv(new_xp[1], share_ratio, ONE),
                            MulDiv(MulDiv(new_xp[2], share_ratio, ONE), ONE, price_scale)>>
        assets_diff == <<AbsDiff(deposits[1], balanced_share[1]),
                         AbsDiff(deposits[2], balanced_share[2])>>
        minted == to_uint(share, LP_TOKEN_PRECISION)
    IN  IF assets_diff[2] = 0
        THEN IF ~minted.ok THEN Err(minted.err, 0)
             ELSE Ok([mint |-> <<0, minted.v>>, config |-> config, price |-> <<>>])
        ELSE provide_liquidity_priced(config, t, new_xp, total_share, share,
                                      MulDiv(assets_diff[1], ONE, assets_diff[2]), solver)

\* the later deposit credited with the whole supply grown by new_d / old_d
provide_liquidity_share_whole(config, t, pools, deposits, new_xp, new_d, total_supply, solver) ==
    LET price_scale == config.pool_state.price_state.price_scale
        old_xp == <<pools[1], MulDiv(pools[2], price_scale, ONE)>>
        old_d == calc_d(old_xp, get_amp_gamma(config.pool_state, t), At(solver, 2))
        total_share == with_precision(total_supply, LP_TOKEN_PRECISION)
        ideposits == <<deposits[1], MulDiv(deposits[2], price_scale, ONE)>>
    IN  IF ~old_d.ok THEN Err(old_d.err, 0)
        ELSE provide_liquidity_accrued(config, t, deposits, new_xp, total_share,
                 MulDiv(MulDiv(total_share, new_d, old_d.v),
                        ONE - calc_provide_fee(ideposits, old_xp, config.pool_params), ONE),
                 solver)

\* the branch of a later deposit (contract.rs 448-495); solver sites 2 to 4
provide_liquidity_share(config, t, pools, deposits, new_xp, new_d, total_supply, solver) ==
    LET price_scale == config.pool_state.price_state.price_scale
        old_xp == <<pools[1], MulDiv(pools[2], price_scale, ONE)>>
        old_d == calc_d(old_xp, get_amp_gamma(config.pool_state, t), At(solver, 2))
        total_share == with_precision(total_supply, LP_TOKEN_PRECISION)
        ideposits == <<deposits[1], MulDiv(deposits[2], price_scale, ONE)>>
    IN  IF ~old_d.ok THEN Err(old_d.err, 0)
        ELSE provide_liquidity_accrued(config, t, deposits, new_xp, total_share,
                 MulDiv(Max(MulDiv(total_share, new_d, old_d.v) - total_share, 0),
                        ONE - calc_provide_fee(ideposits, old_xp, config.pool_params), ONE),
                 solver)

\* the end of provide_liquidity (contract.rs 496-520)
provide_liquidity_minted(config, xcp, branch) ==
    IF ~branch.ok THEN ContractError(branch.err, config)
    ELSE Response([branch.v.config EXCEPT !.pool_state.price_state.xcp = xcp],
                  [NoMessages EXCEPT !.mint = branch.v.mint],
                  branch.v.price, <<>>)

\* provide_liquidity once D is known (contract.rs 422-494)
provide_liquidity_solved(config, t, pools, deposits, new_xp, new_d, total_share, solver) ==
    IF config.liquidity_token = "" THEN ContractError("query_supply", config)
    ELSE provide_liquidity_minted(config,
            get_xcp(new_d, config.pool_state.price_state.price_scale),
            IF provide_liquidity_is_first(total_share)
            THEN provide_liquidity_first(config,
                     get_xcp(new_d, config.pool_state.price_state.price_scale))
            ELSE provide_liquidity_share(config, t, pools, deposits, new_xp, new_d,
                                         total_share, solver))

\* a deposit refused only when both amounts are zero
provide_liquidity_both_zero(deposits) == deposits[1] = 0 /\ deposits[2] = 0

\* deposits[0].is_zero() || deposits[1].is_zero() (contract.rs 388)
provide_liquidity_zero_amount(deposits) == deposits[1] = 0 \/ deposits[2] = 0

\* assets: the amounts of the message, one for each asset
provide_liquidity(config, t, balances, total_share, assets, solver) ==
    IF Len(assets) # 2 THEN ContractError("InvalidNumberOfAssets", config)
    ELSE
    LET pools == query_pools(balances)
        deposits == <<with_precision(assets[1], Precisions[1]),
                      with_precision(assets[2], Precisions[2])>>
        price_scale == config.pool_state.price_state.price_scale
        new_xp == <<pools[1] + deposits[1], MulDiv(pools[2] + deposits[2], price_scale, ONE)>>
        new_d == calc_d(new_xp, get_amp_gamma(config.pool_state, t), At(solver, 1))
    IN  IF provide_liquidity_zero_amount(deposits)
        THEN ContractError("InvalidZeroAmount", config)
        ELSE IF ~new_d.ok THEN ContractError(new_d.err, config)
        ELSE provide_liquidity_solved(config, t, pools, deposits, new_xp, new_d.v,
                                      total_share, solver)

\* the withdrawal accumulating prices as swap and provide_liquidity do
withdraw_liquidity_accumulating(config, t, d) ==
    accumulate_prices(t, [config EXCEPT !.pool_state.price_state.xcp =
                             get_xcp(d, config.pool_state.price_state.price_scale)],
                      config.pool_state.price_state.last_price)

\* "decrease XCP" (contract.rs 571): the one field a withdrawal writes;
\* accumulate_prices is commented out (contract.rs 604-605)
withdraw_liquidity_decrease_xcp(config, t, d) ==
    [config EXCEPT !.pool_state.price_state.xcp =
        get_xcp(d, config.pool_state.price_state.price_scale)]

\* every list of assets taken for a balanced withdrawal
withdraw_liquidity_any_assets(assets) == Len(assets) >= 0

\* assets.is_empty() (contract.rs 557): the usual, balanced withdrawal
withdraw_liquidity_is_balanced(assets) == assets = <<>>

\* withdraw_liquidity taking what calc_d holds whether it converged or not
withdraw_liquidity_unconverged(config, t, balances, total_share, sender, amount, assets, solver) ==
    IF sender # config.liquidity_token THEN ContractError("Unauthorized", config)
    ELSE IF ~withdraw_liquidity_is_balanced(assets)
    THEN ContractError("Imbalanced withdraw is currently disabled", config)
    ELSE
    LET pools == query_pools(balances)
        refund_assets == get_share_in_assets(pools, with_precision(amount, LP_TOKEN_PRECISION),
                                             with_precision(total_share, LP_TOKEN_PRECISION))
        price_scale == config.pool_state.price_state.price_scale
        xs == <<pools[1] - refund_assets[1],
                MulDiv(pools[2] - refund_assets[2], price_scale, ONE)>>
        d == calc_d(xs, get_amp_gamma(config.pool_state, t), At(solver, 1))
        refunds == <<to_uint(refund_assets[1], Precisions[1]),
                     to_uint(refund_assets[2], Precisions[2])>>
    IN  IF ~refunds[1].ok THEN ContractError(refunds[1].err, config)
        ELSE IF ~refunds[2].ok THEN ContractError(refunds[2].err, config)
        ELSE Response(withdraw_liquidity_decrease_xcp(config, t, d.v),
                      [NoMessages EXCEPT !.out = <<refunds[1].v, refunds[2].v>>,
                                         !.burn = amount],
                      <<>>, <<>>)

\* withdraw_liquidity with CONFIG.save moved before the solver is called
withdraw_liquidity_saving_first(config, t, balances, total_share, sender, amount, assets, solver) ==
    IF sender # config.liquidity_token THEN ContractError("Unauthorized", config)
    ELSE IF ~withdraw_liquidity_is_balanced(assets)
    THEN ContractError("Imbalanced withdraw is currently disabled", config)
    ELSE
    LET pools == query_pools(balances)
        refund_assets == get_share_in_assets(pools, with_precision(amount, LP_TOKEN_PRECISION),
                                             with_precision(total_share, LP_TOKEN_PRECISION))
        price_scale == config.pool_state.price_state.price_scale
        xs == <<pools[1] - refund_assets[1],
                MulDiv(pools[2] - refund_assets[2], price_scale, ONE)>>
        d == calc_d(xs, get_amp_gamma(config.pool_state, t), At(solver, 1))
    IN  IF ~d.ok THEN ErrorAfterSave(d.err, config, "calc_d")
        ELSE Response([config EXCEPT !.pool_state.price_state.xcp = get_xcp(d.v, price_scale)],
                      [NoMessages EXCEPT
                          !.out = <<to_uint(refund_assets[1], Precisions[1]).v,
                                    to_uint(refund_assets[2], Precisions[2]).v>>,
                          !.burn = amount],
                      <<>>, <<"calc_d">>)

\* sender is info.sender, amount the LP tokens it passed on, assets the list
\* of an imbalanced withdrawal; solver site 1
withdraw_liquidity(config, t, balances, total_share, sender, amount, assets, solver) ==
    IF sender # config.liquidity_token THEN ContractError("Unauthorized", config)
    ELSE IF ~withdraw_liquidity_is_balanced(assets)
    THEN ContractError("Imbalanced withdraw is currently disabled", config)
    ELSE
    LET pools == query_pools(balances)
        refund_assets == get_share_in_assets(pools, with_precision(amount, LP_TOKEN_PRECISION),
                                             with_precision(total_share, LP_TOKEN_PRECISION))
        price_scale == config.pool_state.price_state.price_scale
        xs == <<pools[1] - refund_assets[1],
                MulDiv(pools[2] - refund_assets[2], price_scale, ONE)>>
        d == calc_d(xs, get_amp_gamma(config.pool_state, t), At(solver, 1))
        refunds == <<to_uint(refund_assets[1], Precisions[1]),
                     to_uint(refund_assets[2], Precisions[2])>>
    IN  IF ~d.ok THEN ContractError(d.err, config)
        ELSE IF ~refunds[1].ok THEN ContractError(refunds[1].err, config)
        ELSE IF ~refunds[2].ok THEN ContractError(refunds[2].err, config)
        ELSE Response(withdraw_liquidity_decrease_xcp(config, t, d.v),
                      [NoMessages EXCEPT !.out = <<refunds[1].v, refunds[2].v>>,
                                         !.burn = amount],
                      <<>>, <<>>)

(***************************************************************************)
(* The staking contract (tokenomics/staking/src/contract.rs): ASTRO is     *)
(* staked for xASTRO.  The bank holds every balance; a call's funds reach  *)
(* the contract before the call runs and go back if it fails.              *)
(***************************************************************************)
MINIMUM_STAKE_AMOUNT == 1000

\* Uint128::multiply_ratio: floor(a * numerator / denominator)
\* multiply_ratio rounding up
multiply_ratio_up(a, numerator, denominator) == (a * numerator + denominator - 1) \div denominator

multiply_ratio(a, numerator, denominator) == (a * numerator) \div denominator

\* cw_utils::must_pay: one coin, of the denom, and not zero
must_pay(funds, denom) ==
    IF funds.amount = 0 THEN Err("No funds sent", 0)
    ELSE IF funds.denom # denom THEN Err("Must send reserve token", 0)
    ELSE Ok(funds.amount)

StakingError(e) == [ok |-> FALSE, err |-> e, mint_self |-> 0, minted |-> 0, burnt |-> 0,
                    returned |-> 0]

\* execute_enter counting the funds of the call among the deposits
\* execute_enter accepting a first stake of any size
execute_enter_any_first(config, funds, balance, total_shares) ==
    LET amount == must_pay(funds, config.astro_denom)
        total_deposit == balance - amount.v
        first == total_shares = 0 \/ total_deposit = 0
        mint_amount == IF first THEN Max(amount.v - MINIMUM_STAKE_AMOUNT, 1)
                       ELSE multiply_ratio(amount.v, total_shares, total_deposit)
    IN  IF ~amount.ok THEN StakingError(amount.err)
        ELSE IF mint_amount = 0 THEN StakingError("StakeAmountTooSmall")
        ELSE [ok |-> TRUE, err |-> "", mint_self |-> IF first THEN MINIMUM_STAKE_AMOUNT ELSE 0,
              minted |-> mint_amount, burnt |-> 0, returned |-> 0]

execute_enter_funds_counted(config, funds, balance, total_shares) ==
    LET amount == must_pay(funds, config.astro_denom)
        total_deposit == balance
        first == total_shares = 0 \/ total_deposit = 0
        mint_amount == IF first THEN amount.v - MINIMUM_STAKE_AMOUNT
                       ELSE multiply_ratio(amount.v, total_shares, total_deposit)
    IN  IF ~amount.ok THEN StakingError(amount.err)
        ELSE IF first /\ amount.v <= MINIMUM_STAKE_AMOUNT
        THEN StakingError("MinimumStakeAmountError")
        ELSE IF mint_amount = 0 THEN StakingError("StakeAmountTooSmall")
        ELSE [ok |-> TRUE, err |-> "", mint_self |-> IF first THEN MINIMUM_STAKE_AMOUNT ELSE 0,
              minted |-> mint_amount, burnt |-> 0, returned |-> 0]

\* execute_enter (contract.rs 234-310); balance is the contract's ASTRO with
\* the funds of the call, total_shares the supply of xASTRO
execute_enter(config, funds, balance, total_shares) ==
    LET amount == must_pay(funds, config.astro_denom)
        total_deposit == balance - amount.v
        first == total_shares = 0 \/ total_deposit = 0
        mint_amount == IF first THEN amount.v - MINIMUM_STAKE_AMOUNT
                       ELSE multiply_ratio(amount.v, total_shares, total_deposit)
    IN  IF ~amount.ok THEN StakingError(amount.err)
        ELSE IF first /\ amount.v <= MINIMUM_STAKE_AMOUNT
        THEN StakingError("MinimumStakeAmountError")
        ELSE IF mint_amount = 0 THEN StakingError("StakeAmountTooSmall")
        ELSE [ok |-> TRUE, err |-> "", mint_self |-> IF first THEN MINIMUM_STAKE_AMOUNT ELSE 0,
              minted |-> mint_amount, burnt |-> 0, returned |-> 0]

\* execute_leave (contract.rs 314-369); the xASTRO of the call is burnt and
\* ASTRO sent to the sender
execute_leave(config, funds, balance, total_shares) ==
    LET amount == must_pay(funds, config.xastro_denom)
    IN  IF ~amount.ok THEN StakingError(amount.err)
        ELSE [ok |-> TRUE, err |-> "", mint_self |-> 0, minted |-> 0, burnt |-> amount.v,
              returned |-> multiply_ratio(amount.v, balance, total_shares)]

StakingContract == "staking"
Stakers == {"alice", "bob"}

\* CONFIG once instantiate (contract.rs 74-80) and the reply that names the
\* new denom (contract.rs 176-179) have run
StakingConfig == [astro_denom |-> "astro", xastro_denom |-> "xastro"]

\* what each staker holds at the start
StakerFunds == 2 * MINIMUM_STAKE_AMOUNT + MINIMUM_STAKE_AMOUNT \div 2
MaxStakingCalls == 4

StakingInit ==
    [astro |-> [a \in Stakers \cup {StakingContract} |->
                    IF a = StakingContract THEN 0 ELSE StakerFunds],
     xastro |-> [a \in Stakers \cup {StakingContract} |-> 0],
     calls |-> 0,
     last |-> [op |-> "none", sender |-> "", receiver |-> "", funds |-> [denom |-> "", amount |-> 0],
               r |-> StakingError("")]]

\* the supply of xASTRO
xastro_supply(balances) ==
    balances.xastro[StakingContract] + balances.xastro["alice"] + balances.xastro["bob"]

\* the balances with the funds of a call moved to the contract
Funded(balances, sender, funds) ==
    IF funds.denom = "astro"
    THEN [balances EXCEPT !.astro[sender] = @ - funds.amount,
                          !.astro[StakingContract] = @ + funds.amount]
    ELSE [balances EXCEPT !.xastro[sender] = @ - funds.amount,
                          !.xastro[StakingContract] = @ + funds.amount]

\* a staker holds the funds it sends
Holds(sender, funds) ==
    IF funds.denom = "astro" THEN staking.astro[sender] >= funds.amount
    ELSE staking.xastro[sender] >= funds.amount

\* the call is recorded; its messages are carried out if it returned Ok
StakingSettled(op, sender, receiver, funds, r, after) ==
    /\ staking.calls < MaxStakingCalls
    /\ staking' = [(IF r.ok THEN after ELSE staking) EXCEPT
                      !.calls = IF r.ok THEN staking.calls + 1 ELSE staking.calls,
                      !.last = [op |-> op, sender |-> sender, receiver |-> receiver,
                                funds |-> funds, r |-> r]]
    /\ UNCHANGED <<pair_vars, factory, token, oracle>>

\* ExecuteMsg::Enter { receiver } (contract.rs 118-128): xASTRO is minted to
\* the contract and sent on to the receiver
Enter(sender, receiver, funds) ==
    /\ Holds(sender, funds)
    /\ \E r \in {execute_enter(StakingConfig, funds,
                                Funded(staking, sender, funds).astro[StakingContract],
                                xastro_supply(staking))} :
          StakingSettled("enter", sender, receiver, funds, r,
              [Funded(staking, sender, funds) EXCEPT
                  !.xastro[StakingContract] = @ + r.mint_self,
                  !.xastro[receiver] = @ + r.minted])

\* ExecuteMsg::Leave (contract.rs 143): the last message sends one xASTRO
\* from the contract to itself, which the contract must hold
Leave(sender, funds) ==
    /\ Holds(sender, funds)
    /\ \E r \in {execute_leave(StakingConfig, funds, staking.astro[StakingContract],
                                xastro_supply(staking))} :
          /\ r.ok => Funded(staking, sender, funds).xastro[StakingContract] - r.burnt >= 1
          /\ StakingSettled("leave", sender, sender, funds, r,
                 [Funded(staking, sender, funds) EXCEPT
                     !.xastro[StakingContract] = @ - r.burnt,
                     !.astro[StakingContract] = @ - r.returned,
                     !.astro[sender] = @ + r.returned])

\* ASTRO sent to the contract without a call: the rewards of the stakers
SendAstro(sender, amount) ==
    /\ staking.astro[sender] >= amount
    /\ staking.calls < MaxStakingCalls
    /\ staking' = [staking EXCEPT !.astro[sender] = @ - amount,
                                  !.astro[StakingContract] = @ + amount,
                                  !.calls = @ + 1,
                                  !.last.op = "send"]
    /\ UNCHANGED <<pair_vars, factory, token, oracle>>

\* no funds, one unit, a stake too small to be the first, the smallest first
\* stake, a larger one, and the wrong denom
EnterFunds ==
    {[denom |-> "astro", amount |-> a] :
        a \in {0, 1, MINIMUM_STAKE_AMOUNT, MINIMUM_STAKE_AMOUNT + 1,
               MINIMUM_STAKE_AMOUNT + MINIMUM_STAKE_AMOUNT \div 2}}
    \cup {[denom |-> "xastro", amount |-> 1]}

\* one unit, half and all of what the staker holds, and the wrong denom
LeaveFunds(sender) ==
    {[denom |-> "xastro", amount |-> a] :
        a \in {1, staking.xastro[sender] \div 2, staking.xastro[sender]}}
    \cup {[denom |-> "astro", amount |-> 1]}

NextStaking ==
    \/ \E sender \in Stakers, funds \in EnterFunds :
          \E receiver \in {sender, "bob"} : Enter(sender, receiver, funds)
    \/ \E sender \in Stakers : \E funds \in LeaveFunds(sender) : Leave(sender, funds)
    \/ \E amount \in {3, MINIMUM_STAKE_AMOUNT \div 2} : SendAstro("bob", amount)

(***************************************************************************)
(* The factory (contracts/factory/src/contract.rs): the registry of pairs. *)
(* Its storage is CONFIG, PAIR_CONFIGS by pair type, PAIRS by the key of   *)
(* the two assets, and TMP_PAIR_INFO, which carries the key from           *)
(* CreatePair to the reply of the pair's instantiation.  An absent value   *)
(* is <<>> and a present one <<v>>.                                        *)
(***************************************************************************)
INSTANTIATE_PAIR_REPLY_ID == 1
INSTANTIATE_PAIR_STABLE_REPLY_ID == 2

FactoryContract == "factory"
PairTypes == {"xyk", "stable"}
AssetPairs == {<<"asset0000", "asset0001">>, <<"asset0001", "asset0000">>, <<"asset0000", "asset0002">>}

\* the order of the bytes of an asset
AssetBytes(a) == CASE a = "asset0000" -> 0 [] a = "asset0001" -> 1 [] OTHER -> 2

\* the key of two assets does not depend on the order they are given in
pair_key(asset_infos) ==
    IF AssetBytes(asset_infos[1]) <= AssetBytes(asset_infos[2])
    THEN <<asset_infos[1], asset_infos[2]>>
    ELSE <<asset_infos[2], asset_infos[1]>>

PairKeys == {pair_key(a) : a \in AssetPairs}

MAX_FEE_BPS == 10000

valid_fee_bps(pc) == pc.total_fee_bps <= MAX_FEE_BPS /\ pc.maker_fee_bps <= MAX_FEE_BPS

FactoryErr(e, store) == [ok |-> FALSE, err |-> e, store |-> store, sub_msg |-> <<>>]

FactoryOk(store, sub_msg) == [ok |-> TRUE, err |-> "", store |-> store, sub_msg |-> sub_msg]

\* instantiate (contract.rs 35-92): every pair config is validated and kept
\* under its type
factory_instantiate(msg) ==
    IF \E i, j \in DOMAIN msg.pair_configs : i # j /\ msg.pair_configs[i].pair_type = msg.pair_configs[j].pair_type
    THEN FactoryErr("PairConfigDuplicate", <<>>)
    ELSE IF \E i \in DOMAIN msg.pair_configs : ~valid_fee_bps(msg.pair_configs[i])
    THEN FactoryErr("PairConfigInvalidFeeBps", <<>>)
    ELSE FactoryOk([config |-> [owner |-> msg.owner, gov |-> msg.gov,
                                token_code_id |-> msg.token_code_id,
                                fee_address |-> msg.fee_address,
                                generator_address |-> msg.generator_address],
                    pair_configs |-> [t \in PairTypes |->
                        IF \E i \in DOMAIN msg.pair_configs : msg.pair_configs[i].pair_type = t
                        THEN <<CHOOSE pc \in {msg.pair_configs[i] : i \in DOMAIN msg.pair_configs} : pc.pair_type = t>>
                        ELSE <<>>],
                    pairs |-> [k \in PairKeys |-> <<>>],
                    tmp_pair_info |-> <<>>], <<>>)

\* execute_update_config without its permission check
execute_update_config_any_sender(store, sender, param) ==
    FactoryOk([store EXCEPT !.config =
             [owner |-> IF param.owner # <<>> THEN param.owner[1] ELSE store.config.owner,
              gov |-> IF param.gov # <<>> THEN param.gov ELSE store.config.gov,
              token_code_id |-> IF param.token_code_id # <<>> THEN param.token_code_id[1]
                                ELSE store.config.token_code_id,
              fee_address |-> IF param.fee_address # <<>> THEN param.fee_address
                              ELSE store.config.fee_address,
              generator_address |-> IF param.generator_address # <<>> THEN param.generator_address[1]
                                    ELSE store.config.generator_address]], <<>>)

\* execute_create_pair without the test of PAIRS
execute_create_pair_unchecked(store, asset_infos) ==
    IF store.pair_configs["xyk"] = <<>> THEN FactoryErr("PairConfigNotFound", store)
    ELSE FactoryOk([store EXCEPT !.tmp_pair_info =
                       <<[pair_key |-> pair_key(asset_infos), owner |-> FactoryContract]>>],
                   <<[id |-> INSTANTIATE_PAIR_REPLY_ID, admin |-> store.config.owner,
                      code_id |-> store.pair_configs["xyk"][1].code_id,
                      asset_infos |-> asset_infos, token_code_id |-> store.config.token_code_id]>>)

\* execute_update_config (contract.rs 146-187)
execute_update_config(store, sender, param) ==
    IF sender # store.config.owner THEN FactoryErr("Unauthorized", store)
    ELSE FactoryOk([store EXCEPT !.config =
             [owner |-> IF param.owner # <<>> THEN param.owner[1] ELSE store.config.owner,
              gov |-> IF param.gov # <<>> THEN param.gov ELSE store.config.gov,
              token_code_id |-> IF param.token_code_id # <<>> THEN param.token_code_id[1]
                                ELSE store.config.token_code_id,
              fee_address |-> IF param.fee_address # <<>> THEN param.fee_address
                              ELSE store.config.fee_address,
              generator_address |-> IF param.generator_address # <<>> THEN param.generator_address[1]
                                    ELSE store.config.generator_address]], <<>>)

\* execute_update_pair_config (contract.rs 189-212)
execute_update_pair_config(store, sender, pair_config) ==
    IF sender # store.config.owner THEN FactoryErr("Unauthorized", store)
    ELSE IF ~valid_fee_bps(pair_config) THEN FactoryErr("PairConfigInvalidFeeBps", store)
    ELSE FactoryOk([store EXCEPT !.pair_configs[pair_config.pair_type] = <<pair_config>>], <<>>)

\* execute_remove_pair_config (contract.rs 214-234)
execute_remove_pair_config(store, sender, pair_type) ==
    IF sender # store.config.owner THEN FactoryErr("Unauthorized", store)
    ELSE IF store.pair_configs[pair_type] = <<>> THEN FactoryErr("PairConfigNotFound", store)
    ELSE FactoryOk([store EXCEPT !.pair_configs[pair_type] = <<>>], <<>>)

\* the submessage that instantiates the pair, answered on success only
InstantiatePairMsg(id, store, pair_config, asset_infos) ==
    <<[id |-> id, admin |-> store.config.owner, code_id |-> pair_config.code_id,
       asset_infos |-> asset_infos, token_code_id |-> store.config.token_code_id]>>

\* execute_create_pair (contract.rs 237-303): anyone may call it; the key is
\* left in TMP_PAIR_INFO for the reply
execute_create_pair(store, asset_infos) ==
    IF store.pairs[pair_key(asset_infos)] # <<>> THEN FactoryErr("PairWasCreated", store)
    ELSE IF store.pair_configs["xyk"] = <<>> THEN FactoryErr("PairConfigNotFound", store)
    ELSE FactoryOk([store EXCEPT !.tmp_pair_info =
                       <<[pair_key |-> pair_key(asset_infos), owner |-> FactoryContract]>>],
                   InstantiatePairMsg(INSTANTIATE_PAIR_REPLY_ID, store,
                                      store.pair_configs["xyk"][1], asset_infos))

\* execute_create_pair_stable (contract.rs 306-364): TMP_PAIR_INFO is not
\* written
execute_create_pair_stable(store, asset_infos) ==
    IF store.pairs[pair_key(asset_infos)] # <<>> THEN FactoryErr("PairWasCreated", store)
    ELSE IF store.pair_configs["stable"] = <<>> THEN FactoryErr("PairConfigNotFound", store)
    ELSE FactoryOk(store,
                   InstantiatePairMsg(INSTANTIATE_PAIR_STABLE_REPLY_ID, store,
                                      store.pair_configs["stable"][1], asset_infos))

\* reply keeping the address under another key than the one of TMP_PAIR_INFO
factory_reply_other_key(store, msg) ==
    IF store.tmp_pair_info = <<>> THEN FactoryErr("NotFound", store)
    ELSE FactoryOk([store EXCEPT !.pairs[CHOOSE k \in PairKeys : k # store.tmp_pair_info[1].pair_key] =
                        <<msg.contract_address>>], <<>>)

\* reply (contract.rs 367-388): the address of the new contract is kept
\* under the key found in TMP_PAIR_INFO; the id of the reply is not read
factory_reply(store, msg) ==
    IF store.tmp_pair_info = <<>> THEN FactoryErr("NotFound", store)
    ELSE IF store.pairs[store.tmp_pair_info[1].pair_key] # <<>>
    THEN FactoryErr("PairWasRegistered", store)
    ELSE FactoryOk([store EXCEPT !.pairs[store.tmp_pair_info[1].pair_key] =
                        <<msg.contract_address>>], <<>>)

\* deregister (contract.rs 390-409)
deregister(store, sender, asset_infos) ==
    IF sender # store.config.owner THEN FactoryErr("Unauthorized", store)
    ELSE IF store.pairs[pair_key(asset_infos)] = <<>> THEN FactoryErr("NotFound", store)
    ELSE FactoryOk([store EXCEPT !.pairs[pair_key(asset_infos)] = <<>>], <<>>)

\* what a pair contract answers about itself
query_pair_info(pair_contracts, pair_addr) ==
    [contract_addr |-> pair_addr, asset_infos |-> pair_contracts[pair_addr]]

\* query_pair (contract.rs 443-446)
query_pair(store, pair_contracts, asset_infos) ==
    IF store.pairs[pair_key(asset_infos)] = <<>> THEN [ok |-> FALSE, err |-> "NotFound"]
    ELSE [ok |-> TRUE, err |-> "",
          info |-> query_pair_info(pair_contracts, store.pairs[pair_key(asset_infos)][1])]

MaxFactoryCalls == 5

\* the message of the integration test (tests/integration.rs 174-204)
FactoryInstantiateMsg ==
    [owner |-> FactoryOwner, gov |-> <<>>, token_code_id |-> 123, fee_address |-> <<>>,
     generator_address |-> "generator",
     pair_configs |-> <<[pair_type |-> "xyk", code_id |-> 321,
                         total_fee_bps |-> 100, maker_fee_bps |-> 10]>>]

\* the storage after instantiate, no pair contract instantiated, no
\* submessage under way
FactoryInit ==
    [store |-> factory_instantiate(FactoryInstantiateMsg).store,
     pair_contracts |-> <<>>,
     pending |-> <<>>,
     calls |-> 0,
     last |-> [op |-> "instantiate", tx |-> "instantiate", sender |-> FactoryOwner,
               asset_infos |-> <<>>, ok |-> TRUE, err |-> "", address |-> 0]]

FactoryLast(op, sender, asset_infos, ok, err, address) ==
    [op |-> op, tx |-> op, sender |-> sender, asset_infos |-> asset_infos, ok |-> ok,
     err |-> err, address |-> address]

\* a call that sends no submessage: its writes are kept if it returned Ok
FactorySettled(op, sender, asset_infos, r) ==
    /\ factory.pending = <<>>
    /\ factory.calls < MaxFactoryCalls
    /\ factory' = [factory EXCEPT
                      !.store = IF r.ok THEN r.store ELSE @,
                      !.calls = IF r.ok THEN @ + 1 ELSE @,
                      !.last = FactoryLast(op, sender, asset_infos, r.ok, r.err, 0)]
    /\ UNCHANGED <<pair_vars, staking, token, oracle>>

\* a call that sends the instantiation of a pair as a submessage: the
\* transaction is not over until the submessage is answered
FactorySubmitted(op, sender, asset_infos, r) ==
    /\ factory.pending = <<>>
    /\ factory.calls < MaxFactoryCalls
    /\ factory' = [factory EXCEPT
                      !.store = IF r.ok THEN r.store ELSE @,
                      !.pending = IF r.ok THEN <<[sub_msg |-> r.sub_msg[1], before |-> factory.store,
                                                  op |-> op, sender |-> sender]>>
                                  ELSE <<>>,
                      !.last = FactoryLast(op, sender, asset_infos, r.ok, r.err, 0)]
    /\ UNCHANGED <<pair_vars, staking, token, oracle>>

FactoryUpdateConfig(sender, param) ==
    FactorySettled("update_config", sender, <<>>, execute_update_config(factory.store, sender, param))

FactoryUpdatePairConfig(sender, pair_config) ==
    FactorySettled("update_pair_config", sender, <<>>,
                   execute_update_pair_config(factory.store, sender, pair_config))

FactoryRemovePairConfig(sender, pair_type) ==
    FactorySettled("remove_pair_config", sender, <<>>,
                   execute_remove_pair_config(factory.store, sender, pair_type))

Deregister(sender, asset_infos) ==
    FactorySettled("deregister", sender, asset_infos, deregister(factory.store, sender, asset_infos))

CreatePair(sender, asset_infos) ==
    FactorySubmitted("create_pair", sender, asset_infos, execute_create_pair(factory.store, asset_infos))

CreatePairStable(sender, asset_infos) ==
    FactorySubmitted("create_pair_stable", sender, asset_infos,
                     execute_create_pair_stable(factory.store, asset_infos))

\* the pair contract is instantiated at the next address and the factory's
\* reply runs; an error of the reply fails the whole transaction
FactoryReplied(p, address, r) ==
    /\ factory' = IF r.ok
                  THEN [factory EXCEPT
                           !.store = r.store,
                           !.pair_contracts = Append(@, p.sub_msg.asset_infos),
                           !.pending = <<>>,
                           !.calls = @ + 1,
                           !.last = [FactoryLast("reply", p.sender, p.sub_msg.asset_infos, TRUE, "", address)
                                       EXCEPT !.tx = p.op]]
                  ELSE [factory EXCEPT
                           !.store = p.before,
                           !.pending = <<>>,
                           !.last = [FactoryLast("reply", p.sender, p.sub_msg.asset_infos, FALSE, r.err, 0)
                                       EXCEPT !.tx = p.op]]
    /\ UNCHANGED <<pair_vars, staking, token, oracle>>

FactoryReply ==
    /\ factory.pending # <<>>
    /\ FactoryReplied(factory.pending[1], Len(factory.pair_contracts) + 1,
                      factory_reply(factory.store,
                                    [id |-> factory.pending[1].sub_msg.id,
                                     contract_address |-> Len(factory.pair_contracts) + 1]))

\* the instantiation of the pair fails: no reply (ReplyOn::Success), and the
\* transaction fails with it
InstantiateFailed ==
    /\ factory.pending # <<>>
    /\ factory' = [factory EXCEPT
                      !.store = factory.pending[1].before,
                      !.pending = <<>>,
                      !.last = [FactoryLast("instantiate_pair", factory.pending[1].sender,
                                            factory.pending[1].sub_msg.asset_infos, FALSE,
                                            "instantiate", 0)
                                  EXCEPT !.tx = factory.pending[1].op]]
    /\ UNCHANGED <<pair_vars, staking, token, oracle>>

FactorySenders == {FactoryOwner, "new_owner", "user"}

FactoryNoUpdate == [owner |-> <<>>, gov |-> <<>>, token_code_id |-> <<>>, fee_address |-> <<>>, generator_address |-> <<>>]

\* the updates of the integration test (tests/integration.rs 112-145): a
\* new owner, then the remaining items
FactoryUpdateConfigMsgs ==
    {[FactoryNoUpdate EXCEPT !.owner = <<"new_owner">>, !.gov = <<"new_owner">>],
     [FactoryNoUpdate EXCEPT !.token_code_id = <<200>>, !.fee_address = <<"fee">>]}

\* a stable config (tests/integration.rs 105-109) and one with a fee above
\* the whole
PairConfigs ==
    {[pair_type |-> "stable", code_id |-> 321, total_fee_bps |-> 100, maker_fee_bps |-> 10],
     [pair_type |-> "xyk", code_id |-> 321, total_fee_bps |-> MAX_FEE_BPS + 1, maker_fee_bps |-> 10]}

NextFactory ==
    \/ \E sender \in FactorySenders, param \in FactoryUpdateConfigMsgs : FactoryUpdateConfig(sender, param)
    \/ \E sender \in FactorySenders, pc \in PairConfigs : FactoryUpdatePairConfig(sender, pc)
    \/ \E sender \in FactorySenders, t \in PairTypes : FactoryRemovePairConfig(sender, t)
    \/ \E sender \in FactorySenders, a \in AssetPairs : Deregister(sender, a)
    \/ \E a \in AssetPairs : CreatePair("user", a)
    \/ \E a \in AssetPairs : CreatePairStable("user", a)
    \/ FactoryReply
    \/ InstantiateFailed


(***************************************************************************)
(* The xASTRO token (contracts/xastro_token): a cw20 token that records    *)
(* its total supply at every block height at which the supply changes.     *)
(* A handler returns the storage as it stands when the handler returns;    *)
(* the chain keeps it only if the handler returned Ok.                     *)
(***************************************************************************)
TokenAccounts == {"alice", "bob", "staking"}
TokenMinter == "staking"
TokenCap == 4
MaxHeight == 3
Heights == 1..MaxHeight
MaxTokenCalls == 3

\* the storage before instantiate: no TOKEN_INFO, no balance, no allowance,
\* no entry of TOTAL_SUPPLY_HISTORY (state.rs 13-20)
EmptyTokenStore ==
    [info |-> <<>>,
     balances |-> [a \in TokenAccounts |-> 0],
     allowances |-> [p \in TokenAccounts \X TokenAccounts |-> <<>>],
     history |-> [h \in Heights |-> <<>>]]

TokenOk(store) == [ok |-> TRUE, err |-> "", store |-> store]
TokenErr(e, store) == [ok |-> FALSE, err |-> e, store |-> store]

\* state.rs 25-31: the supply is saved under the height of the block
capture_total_supply_history(store, height, supply) ==
    [store EXCEPT !.history[height] = <<supply>>]

\* state.rs 36-50 with a range that ends before the block asked for
get_total_supply_at_exclusive(store, block) ==
    LET recorded == {h \in Heights : h < block /\ store.history[h] # <<>>}
    IN  IF recorded # {}
        THEN store.history[CHOOSE h \in recorded : \A g \in recorded : g <= h][1]
        ELSE 0

\* state.rs 36-50: the entry of the greatest height up to the block, the
\* block included; zero if there is none
get_total_supply_at(store, block) ==
    LET recorded == {h \in Heights : h <= block /\ store.history[h] # <<>>}
    IN  IF recorded # {}
        THEN store.history[CHOOSE h \in recorded : \A g \in recorded : g <= h][1]
        ELSE 0

\* contract.rs 193-201: every row saves its balance, a later row of the same
\* address over an earlier one, and adds its amount to the supply
RECURSIVE create_accounts(_, _)
create_accounts(store, accounts) ==
    IF accounts = <<>> THEN [store |-> store, total_supply |-> 0]
    ELSE LET row == Head(accounts)
             rest == create_accounts([store EXCEPT !.balances[row.address] = row.amount],
                                     Tail(accounts))
         IN  [store |-> rest.store, total_supply |-> row.amount + rest.total_supply]

\* contract.rs 114-185
token_instantiate(store, height, msg) ==
    LET created == create_accounts(store, msg.initial_balances)
        captured == IF created.total_supply # 0
                    THEN capture_total_supply_history(created.store, height, created.total_supply)
                    ELSE created.store
    IN  IF msg.mint # <<>> /\ msg.mint[1].cap # <<>> /\ created.total_supply > msg.mint[1].cap[1]
        THEN TokenErr("Initial supply greater than cap", captured)
        ELSE TokenOk([captured EXCEPT !.info = <<[total_supply |-> created.total_supply,
                                                  mint |-> msg.mint]>>])

\* contract.rs 300-334
execute_transfer(store, height, sender, recipient, amount) ==
    IF amount = 0 THEN TokenErr("InvalidZeroAmount", store)
    ELSE IF store.balances[sender] < amount THEN TokenErr("Overflow", store)
    ELSE LET debited == [store EXCEPT !.balances[sender] = @ - amount]
         IN  TokenOk([debited EXCEPT !.balances[recipient] = @ + amount])

\* contract.rs 347-380
execute_burn(store, height, sender, amount) ==
    IF amount = 0 THEN TokenErr("InvalidZeroAmount", store)
    ELSE IF store.balances[sender] < amount THEN TokenErr("Overflow", store)
    ELSE LET lowered == [store EXCEPT !.balances[sender] = @ - amount]
         IN  IF lowered.info[1].total_supply < amount THEN TokenErr("Overflow", lowered)
             ELSE LET reduced == [lowered EXCEPT !.info[1].total_supply = @ - amount]
                  IN  TokenOk(capture_total_supply_history(reduced, height,
                                                           reduced.info[1].total_supply))

\* contract.rs 395-437
execute_mint(store, height, sender, recipient, amount) ==
    IF amount = 0 THEN TokenErr("InvalidZeroAmount", store)
    ELSE IF store.info[1].mint = <<>> \/ store.info[1].mint[1].minter # sender
    THEN TokenErr("Unauthorized", store)
    ELSE LET config == [store.info[1] EXCEPT !.total_supply = @ + amount]
         IN  IF config.mint[1].cap # <<>> /\ config.total_supply > config.mint[1].cap[1]
             THEN TokenErr("CannotExceedCap", store)
             ELSE LET saved == [store EXCEPT !.info = <<config>>]
                      captured == capture_total_supply_history(saved, height, config.total_supply)
                  IN  TokenOk([captured EXCEPT !.balances[recipient] = @ + amount])

\* contract.rs 454-494: the Cw20ReceiveMsg of the Response goes to the
\* receiving contract
execute_send(store, height, sender, contract, amount) ==
    IF amount = 0 THEN TokenErr("InvalidZeroAmount", store)
    ELSE IF store.balances[sender] < amount THEN TokenErr("Overflow", store)
    ELSE LET debited == [store EXCEPT !.balances[sender] = @ - amount]
         IN  TokenOk([debited EXCEPT !.balances[contract] = @ + amount])

\* cw20_base::allowances::deduct_allowance, called at contract.rs 527, 577
\* and 636: the allowance of the spender is lowered by the amount; there
\* must be one, and it must cover the amount.  Allowances never expire here.
deduct_allowance(store, owner, spender, amount) ==
    IF store.allowances[<<owner, spender>>] = <<>> THEN TokenErr("NoAllowance", store)
    ELSE IF store.allowances[<<owner, spender>>][1] < amount THEN TokenErr("Overflow", store)
    ELSE TokenOk([store EXCEPT !.allowances[<<owner, spender>>] = <<@[1] - amount>>])

\* cw20_base::allowances::execute_increase_allowance, dispatched at
\* contract.rs 256-260
execute_increase_allowance(store, owner, spender, amount) ==
    IF spender = owner THEN TokenErr("CannotSetOwnAccount", store)
    ELSE TokenOk([store EXCEPT !.allowances[<<owner, spender>>] =
                      IF @ = <<>> THEN <<amount>> ELSE <<@[1] + amount>>])

\* contract.rs 515-552
execute_transfer_from(store, height, sender, owner, recipient, amount) ==
    LET deducted == deduct_allowance(store, owner, sender, amount)
    IN  IF ~deducted.ok THEN deducted
        ELSE IF deducted.store.balances[owner] < amount THEN TokenErr("Overflow", deducted.store)
        ELSE LET debited == [deducted.store EXCEPT !.balances[owner] = @ - amount]
             IN  TokenOk([debited EXCEPT !.balances[recipient] = @ + amount])

\* contract.rs 567-604
execute_burn_from(store, height, sender, owner, amount) ==
    LET deducted == deduct_allowance(store, owner, sender, amount)
    IN  IF ~deducted.ok THEN deducted
        ELSE IF deducted.store.balances[owner] < amount THEN TokenErr("Overflow", deducted.store)
        ELSE LET lowered == [deducted.store EXCEPT !.balances[owner] = @ - amount]
             IN  IF lowered.info[1].total_supply < amount THEN TokenErr("Overflow", lowered)
                 ELSE LET reduced == [lowered EXCEPT !.info[1].total_supply = @ - amount]
                      IN  TokenOk(capture_total_supply_history(reduced, height,
                                                               reduced.info[1].total_supply))

\* contract.rs 623-672
execute_send_from(store, height, sender, owner, contract, amount) ==
    LET deducted == deduct_allowance(store, owner, sender, amount)
    IN  IF ~deducted.ok THEN deducted
        ELSE IF deducted.store.balances[owner] < amount THEN TokenErr("Overflow", deducted.store)
        ELSE LET debited == [deducted.store EXCEPT !.balances[owner] = @ - amount]
             IN  TokenOk([debited EXCEPT !.balances[contract] = @ + amount])

\* the sum of BALANCES
balances_sum(store) ==
    store.balances["alice"] + store.balances["bob"] + store.balances["staking"]

\* TOKEN_INFO.total_supply; no token, no supply
token_supply(store) == IF store.info = <<>> THEN 0 ELSE store.info[1].total_supply

\* The token before instantiate, at the first height.  ends[h] is the supply
\* with which block h ended, for the blocks that have ended.
TokenInit ==
    [store |-> EmptyTokenStore,
     height |-> 1,
     ends |-> [h \in Heights |-> 0],
     calls |-> 0,
     last |-> [op |-> "none", ok |-> TRUE, err |-> "", from |-> "", amount |-> 0]]

\* the chain keeps the storage of a call that returned Ok and drops the
\* writes of one that returned an error
TokenSettled(op, from, amount, r) ==
    /\ token.calls < MaxTokenCalls
    /\ token' = [token EXCEPT !.store = IF r.ok THEN r.store ELSE token.store,
                              !.calls = IF r.ok THEN @ + 1 ELSE @,
                              !.last = [op |-> op, ok |-> r.ok, err |-> r.err,
                                        from |-> from, amount |-> amount]]
    /\ UNCHANGED <<pair_vars, staking, factory, oracle>>

TokenInstantiate(msg) ==
    /\ token.store.info = <<>>
    /\ TokenSettled("instantiate", "", 0, token_instantiate(token.store, token.height, msg))

Transfer(sender, recipient, amount) ==
    /\ token.store.info # <<>>
    /\ TokenSettled("transfer", sender, amount,
                    execute_transfer(token.store, token.height, sender, recipient, amount))

Burn(sender, amount) ==
    /\ token.store.info # <<>>
    /\ TokenSettled("burn", sender, amount,
                    execute_burn(token.store, token.height, sender, amount))

Mint(sender, recipient, amount) ==
    /\ token.store.info # <<>>
    /\ TokenSettled("mint", sender, amount,
                    execute_mint(token.store, token.height, sender, recipient, amount))

Send(sender, contract, amount) ==
    /\ token.store.info # <<>>
    /\ TokenSettled("send", sender, amount,
                    execute_send(token.store, token.height, sender, contract, amount))

IncreaseAllowance(owner, spender, amount) ==
    /\ token.store.info # <<>>
    /\ TokenSettled("increase_allowance", owner, amount,
                    execute_increase_allowance(token.store, owner, spender, amount))

TransferFrom(sender, owner, recipient, amount) ==
    /\ token.store.info # <<>>
    /\ TokenSettled("transfer_from", owner, amount,
                    execute_transfer_from(token.store, token.height, sender, owner, recipient, amount))

BurnFrom(sender, owner, amount) ==
    /\ token.store.info # <<>>
    /\ TokenSettled("burn_from", owner, amount,
                    execute_burn_from(token.store, token.height, sender, owner, amount))

SendFrom(sender, owner, contract, amount) ==
    /\ token.store.info # <<>>
    /\ TokenSettled("send_from", owner, amount,
                    execute_send_from(token.store, token.height, sender, owner, contract, amount))

\* the block ends with the supply it has, and the next one begins
NextBlock ==
    /\ token.height < MaxHeight
    /\ token' = [token EXCEPT !.ends[token.height] = token_supply(token.store),
                              !.height = @ + 1,
                              !.last.op = "block"]
    /\ UNCHANGED <<pair_vars, staking, factory, oracle>>

\* no account, one, two, one account in two rows, and more than the cap; a
\* minter with a cap, and no minter
Coin(address, amount) == [address |-> address, amount |-> amount]
TokenInstantiateMsgs ==
    {[initial_balances |-> b, mint |-> <<[minter |-> TokenMinter, cap |-> <<TokenCap>>]>>] :
        b \in {<<>>, <<Coin("alice", 2)>>, <<Coin("alice", 1), Coin("bob", 1)>>,
               <<Coin("alice", 1), Coin("alice", 1)>>, <<Coin("alice", 3), Coin("bob", 2)>>}}
    \cup {[initial_balances |-> <<Coin("alice", 2)>>, mint |-> <<>>]}

TokenAmounts == {0, 1, 2}
TokenSpenders == {"bob"}
TokenOwners == {"alice", "bob"}

NextToken ==
    \/ \E msg \in TokenInstantiateMsgs : TokenInstantiate(msg)
    \/ \E s \in TokenAccounts, r \in TokenOwners, a \in TokenAmounts : Transfer(s, r, a)
    \/ \E s \in TokenAccounts, a \in TokenAmounts : Burn(s, a)
    \/ \E s \in {TokenMinter, "alice"}, r \in TokenOwners, a \in TokenAmounts : Mint(s, r, a)
    \/ \E s \in TokenOwners, a \in TokenAmounts : Send(s, "staking", a)
    \/ \E o \in TokenOwners, s \in TokenSpenders, a \in {1, 2} : IncreaseAllowance(o, s, a)
    \/ \E s \in TokenSpenders, o \in TokenOwners, a \in TokenAmounts : TransferFrom(s, o, "bob", a)
    \/ \E s \in TokenSpenders, o \in TokenOwners, a \in TokenAmounts : BurnFrom(s, o, a)
    \/ \E s \in TokenSpenders, o \in TokenOwners, a \in TokenAmounts : SendFrom(s, o, "staking", a)
    \/ NextBlock

(***************************************************************************)
(* The TWAP oracle (contracts/periphery/oracle).  The cumulative prices of *)
(* the pair are what the pair answers to the query; Decimal256 averages    *)
(* are held in units of 1/ONE.                                             *)
(***************************************************************************)
PERIOD == 86400

\* Uint128 arithmetic that wraps, at the width of the model's cumulative prices
CumulativeModulus == 1048576
wrapping_sub(a, b) == (a - b + CumulativeModulus) % CumulativeModulus

OracleOk(price) == [ok |-> TRUE, err |-> "", price_last |-> <<price>>]
OracleErr(e, price_last) == [ok |-> FALSE, err |-> e, price_last |-> price_last]

\* contract.rs 55-69: the averages start at zero, the time at the block's
oracle_instantiate(t, prices) ==
    OracleOk([cumulative_prices |-> prices,
              average_prices |-> [i \in DOMAIN prices |-> 0],
              block_timestamp_last |-> t])

\* contract.rs 105-140 without the test of the period; an average over no
\* time is a division by zero
update_any_time(price_last, t, prices) ==
    LET time_elapsed == t - price_last.block_timestamp_last
    IN  IF time_elapsed = 0 THEN OracleErr("Divide by zero", <<price_last>>)
        ELSE OracleOk([cumulative_prices |-> prices,
                       average_prices |->
                           [i \in DOMAIN prices |->
                               MulDiv(wrapping_sub(prices[i], price_last.cumulative_prices[i]),
                                      ONE, time_elapsed)],
                       block_timestamp_last |-> t])

\* contract.rs 105-140
update(price_last, t, prices) ==
    LET time_elapsed == t - price_last.block_timestamp_last
    IN  IF time_elapsed < PERIOD THEN OracleErr("WrongPeriod", <<price_last>>)
        ELSE OracleOk([cumulative_prices |-> prices,
                       average_prices |->
                           [i \in DOMAIN prices |->
                               MulDiv(wrapping_sub(prices[i], price_last.cumulative_prices[i]),
                                      ONE, time_elapsed)],
                       block_timestamp_last |-> t])

MaxOracleTicks == 6

\* The oracle before instantiate.  updates lists the block times of the
\* updates that returned Ok.
OracleInit ==
    [price_last |-> <<>>,
     time |-> StartTime,
     ticks |-> 0,
     updates |-> <<>>,
     last |-> [op |-> "none", ok |-> TRUE, err |-> ""]]

OracleInstantiate(prices) ==
    /\ oracle.price_last = <<>>
    /\ LET r == oracle_instantiate(oracle.time, prices)
       IN  oracle' = [oracle EXCEPT !.price_last = r.price_last,
                                    !.last = [op |-> "instantiate", ok |-> r.ok, err |-> r.err]]
    /\ UNCHANGED <<pair_vars, staking, factory, token>>

\* ExecuteMsg::Update {} (contract.rs 92-94)
OracleUpdate(prices) ==
    /\ oracle.price_last # <<>>
    /\ LET r == update(oracle.price_last[1], oracle.time, prices)
       IN  oracle' = [oracle EXCEPT !.price_last = IF r.ok THEN r.price_last ELSE @,
                                    !.updates = IF r.ok THEN Append(@, oracle.time) ELSE @,
                                    !.last = [op |-> "update", ok |-> r.ok, err |-> r.err]]
    /\ UNCHANGED <<pair_vars, staking, factory, token>>

\* block time moves on between calls
OracleTick(d) ==
    /\ oracle.ticks < MaxOracleTicks
    /\ oracle' = [oracle EXCEPT !.time = @ + d, !.ticks = @ + 1, !.last.op = "tick"]
    /\ UNCHANGED <<pair_vars, staking, factory, token>>

\* the cumulative prices of the two directions that the pair reports, the
\* last of them after the accumulator has wrapped
CumulativePrices == {<<0, 0>>, <<PERIOD, 2 * PERIOD>>, <<2 * PERIOD, 0>>}
\* a second, a second short of the period, and the period
OracleSteps == {1, PERIOD - 1, PERIOD}

NextOracle ==
    \/ \E prices \in CumulativePrices : OracleInstantiate(prices)
    \/ \E prices \in CumulativePrices : OracleUpdate(prices)
    \/ \E d \in OracleSteps : OracleTick(d)

(***************************************************************************)
(* The state machine.  The chain runs one entry point at a time and drops  *)
(* every write of a call that returns an error.                            *)
(***************************************************************************)
Config == CONFIG[1]

\* query_supply: the LP tokens in existence
total_supply == lp.pair + lp.user

\* what a call leaves to be seen: whether it returned Ok and with which error,
\* whether CONFIG.save had run, the fallible steps that ran after it,
\* update_price's candidate, the funds a successful call came with and the
\* messages of its Response
Outcome(op, r) ==
    [op |-> op, ok |-> r.ok, err |-> r.err, saved |-> r.saved, after_save |-> <<>>,
     price |-> <<>>, funds |-> <<0, 0>>, messages |-> NoMessages]
PoolOutcome(op, r, funds) ==
    [op |-> op, ok |-> r.ok, err |-> r.err, saved |-> r.saved, after_save |-> r.after_save,
     price |-> r.price, funds |-> IF r.ok THEN funds ELSE <<0, 0>>,
     messages |-> r.messages]

\* no function has been applied on its own
NotApplied == [f |-> "none", args |-> <<>>, out |-> <<>>]

Init ==
    /\ CONFIG = <<>>
    /\ now = StartTime
    /\ bank = <<0, 0>>
    /\ lp = [pair |-> 0, user |-> 0]
    /\ calls = 0
    /\ last = [op |-> "none", ok |-> TRUE, err |-> "", saved |-> FALSE, after_save |-> <<>>,
               price |-> <<>>, funds |-> <<0, 0>>, messages |-> NoMessages]
    /\ applied = NotApplied
    /\ staking = StakingInit
    /\ factory = FactoryInit
    /\ token = TokenInit
    /\ oracle = OracleInit

Instantiate(msg) ==
    /\ CONFIG = <<>>
    /\ LET r == instantiate(now, msg)
       IN  /\ CONFIG' = IF r.ok THEN r.config ELSE CONFIG
           /\ last' = Outcome("instantiate", r)
    /\ UNCHANGED <<now, bank, lp, calls, applied, others>>

Reply(msg) ==
    /\ CONFIG # <<>>
    /\ LET r == reply(Config, msg)
       IN  /\ CONFIG' = IF r.ok THEN r.config ELSE CONFIG
           /\ last' = Outcome("reply", r)
    /\ UNCHANGED <<now, bank, lp, calls, applied, others>>

UpdateConfig(sender, params) ==
    /\ CONFIG # <<>>
    /\ LET r == update_config(Config, now, sender, params)
       IN  /\ CONFIG' = IF r.ok THEN r.config ELSE CONFIG
           /\ last' = Outcome(params.kind, r)
    /\ UNCHANGED <<now, bank, lp, calls, applied, others>>

\* block time moves on between calls
Tick(d) ==
    /\ now + d <= MaxTime
    /\ now' = now + d
    /\ UNCHANGED <<CONFIG, bank, lp, calls, last, applied, others>>

\* The chain carries out the messages of a successful call with its state
\* changes: funds sent with the call stay, transfers leave, LP is minted to
\* the pool and to the receiver, and burnt from the sender's holding.
Settled(r, funds) ==
    /\ CONFIG' = IF r.ok THEN r.config ELSE CONFIG
    /\ bank' = IF r.ok
               THEN <<bank[1] + funds[1] - r.messages.out[1],
                      bank[2] + funds[2] - r.messages.out[2]>>
               ELSE bank
    /\ lp' = IF r.ok
             THEN [pair |-> lp.pair + r.messages.mint[1],
                   user |-> lp.user + r.messages.mint[2] - r.messages.burn]
             ELSE lp
    /\ calls' = IF r.ok THEN calls + 1 ELSE calls
    /\ UNCHANGED <<now, applied, others>>

\* a call whose prices stay within the range the model's integers hold
InRange(r) ==
    LET price_state == r.config[1].pool_state.price_state
    IN  /\ price_state.last_price < PriceCap
        /\ price_state.oracle_price < PriceCap
        /\ price_state.price_scale < PriceCap

Swap(offer_asset, belief_price, max_spread, solver) ==
    /\ CONFIG # <<>>
    /\ calls < MaxCalls
    /\ \E r \in {swap(Config, now, bank, total_supply, offer_asset, belief_price,
                      max_spread, solver)} :
          /\ InRange(r)
          /\ Settled(r, IF offer_asset.ind = 1 THEN <<offer_asset.amount, 0>>
                        ELSE IF offer_asset.ind = 2 THEN <<0, offer_asset.amount>>
                        ELSE <<0, 0>>)
          /\ last' = PoolOutcome("swap", r,
                                  IF offer_asset.ind = 1 THEN <<offer_asset.amount, 0>>
                                  ELSE IF offer_asset.ind = 2 THEN <<0, offer_asset.amount>>
                                  ELSE <<0, 0>>)

ProvideLiquidity(assets, solver) ==
    /\ CONFIG # <<>>
    /\ calls < MaxCalls
    /\ \E r \in {provide_liquidity(Config, now, bank, total_supply, assets, solver)} :
          /\ InRange(r)
          /\ Settled(r, IF Len(assets) = 2 THEN assets ELSE <<0, 0>>)
          /\ last' = PoolOutcome("provide_liquidity", r,
                                  IF Len(assets) = 2 THEN assets ELSE <<0, 0>>)

\* the LP token contract passes on what a holder sent it; anyone else may
\* call with any amount
WithdrawLiquidity(sender, amount, assets, solver) ==
    /\ CONFIG # <<>>
    /\ calls < MaxCalls
    /\ amount > 0
    /\ amount <= lp.user
    /\ \E r \in {withdraw_liquidity(Config, now, bank, total_supply, sender, amount,
                                     assets, solver)} :
          /\ InRange(r)
          /\ Settled(r, <<0, 0>>)
          /\ last' = PoolOutcome("withdraw_liquidity", r, <<0, 0>>)

(***************************************************************************)
(* Inputs.                                                                 *)
(***************************************************************************)
Senders == {FactoryOwner, "user"}

ValidPoolParams ==
    [mid_fee |-> MIN_FEE, out_fee |-> MAX_FEE, fee_gamma |-> FEE_GAMMA_MIN,
     repeg_profit_threshold |-> REPEG_PROFIT_THRESHOLD_MIN,
     min_price_scale_delta |-> ONE \div 100, ma_half_time |-> 600]

InitParams(amp, gamma, price_scale, mid_fee) ==
    [amp |-> amp, gamma |-> gamma, price_scale |-> price_scale,
     mid_fee |-> mid_fee, out_fee |-> ValidPoolParams.out_fee,
     fee_gamma |-> ValidPoolParams.fee_gamma,
     repeg_profit_threshold |-> ValidPoolParams.repeg_profit_threshold,
     min_price_scale_delta |-> ValidPoolParams.min_price_scale_delta,
     ma_half_time |-> ValidPoolParams.ma_half_time]

MidAmp == 100
MidGamma == 1000
InitAmps == {AMP_MIN - 1, AMP_MIN, MidAmp, AMP_MAX - AMP_MAX \div 20, AMP_MAX + 1}
InitGammas == {GAMMA_MIN - 1, GAMMA_MIN, MidGamma, GAMMA_MAX, GAMMA_MAX + 1}

\* messages that fail before the parameters are read, then one parameter at a
\* time taken through its range
InstantiateMsgs ==
    {[asset_count |-> 3, init_params |-> <<>>], [asset_count |-> 2, init_params |-> <<>>]}
    \cup {[asset_count |-> 2, init_params |-> Some(InitParams(a, MidGamma, ONE, MIN_FEE))] :
            a \in InitAmps}
    \cup {[asset_count |-> 2, init_params |-> Some(InitParams(MidAmp, g, ONE, MIN_FEE))] :
            g \in InitGammas}
    \cup {[asset_count |-> 2, init_params |-> Some(InitParams(MidAmp, MidGamma, ps, MIN_FEE))] :
            ps \in {0, 2 * ONE}}
    \cup {[asset_count |-> 2, init_params |-> Some(InitParams(MidAmp, MidGamma, ONE, 0))]}

ReplyMsgs == {[id |-> i, data |-> d] :
                i \in {INSTANTIATE_TOKEN_REPLY_ID, INSTANTIATE_TOKEN_REPLY_ID + 1},
                d \in {<<>>, Some(LpToken), Some("other_token"), Some(Unparsable)}}

NoUpdate ==
    [mid_fee |-> <<>>, out_fee |-> <<>>, fee_gamma |-> <<>>,
     repeg_profit_threshold |-> <<>>, min_price_scale_delta |-> <<>>,
     ma_half_time |-> <<>>]
NoPromote == [next_amp |-> 0, next_gamma |-> 0, future_time |-> 0]

PromoteMsg(a, g, future_time) ==
    [kind |-> "Promote", update |-> NoUpdate,
     promote |-> [next_amp |-> a, next_gamma |-> g, future_time |-> future_time]]

\* the largest change of v that MAX_CHANGE allows
MaxStep(v) == (v * MAX_CHANGE) \div 100

\* Around the values in force: amp is raised by exactly MAX_CHANGE over the
\* shortest window and gamma lowered by it over a longer one; each is also moved
\* one unit too far, to the ends of its range and one unit beyond them, and the
\* window is tried one second too short.
PromoteMsgs(t) ==
    LET cur == get_amp_gamma(Config.pool_state, t)
        day == t + MIN_AMP_CHANGING_TIME
    IN  {PromoteMsg(a, cur.gamma, day) :
            a \in {cur.amp, cur.amp + MaxStep(cur.amp), cur.amp + MaxStep(cur.amp) + 1,
                   AMP_MIN - 1, AMP_MAX, AMP_MAX + 1}}
        \cup {PromoteMsg(cur.amp, g, day + HalfDay) :
                g \in {cur.gamma - MaxStep(cur.gamma),
                       Max(cur.gamma - MaxStep(cur.gamma) - 1, 0),
                       GAMMA_MIN - 1, GAMMA_MIN, GAMMA_MAX + 1}}
        \cup {PromoteMsg(cur.amp, cur.gamma, day - 1)}

UpdateMsg(mid_fee) ==
    [kind |-> "Update", promote |-> NoPromote,
     update |-> [NoUpdate EXCEPT !.mid_fee = Some(mid_fee)]]

OtherMsg(kind) == [kind |-> kind, update |-> NoUpdate, promote |-> NoPromote]

(***************************************************************************)
(* The promotion state machine on its own: the pool holds no liquidity and *)
(* the fee parameters keep their values.                                   *)
(***************************************************************************)
UpdateConfigMsgs(t) ==
    PromoteMsgs(t)
    \cup {UpdateMsg(MIN_FEE), UpdateMsg(MAX_FEE + 1)}
    \cup {OtherMsg("StopChangingAmpGamma"), OtherMsg("Malformed")}

Next ==
    \/ \E msg \in InstantiateMsgs : Instantiate(msg)
    \/ /\ CONFIG # <<>>
       /\ \E p \in UpdateConfigMsgs(now) : UpdateConfig(FactoryOwner, p)
    \/ UpdateConfig("user", OtherMsg("StopChangingAmpGamma"))
    \/ \E d \in {HalfDay, MIN_AMP_CHANGING_TIME} : Tick(d)

Spec == Init /\ [][Next]_vars

(***************************************************************************)
(* The pool with liquidity: one pool is created, its LP token registered,  *)
(* and deposits, swaps, withdrawals and parameter updates follow in any    *)
(* order while block time moves on.                                        *)
(***************************************************************************)
PoolInitParams ==
    [amp |-> MidAmp, gamma |-> MidGamma, price_scale |-> ONE,
     mid_fee |-> 3 * MIN_FEE, out_fee |-> 10 * MIN_FEE,
     fee_gamma |-> FEE_GAMMA_MAX \div 2,
     repeg_profit_threshold |-> REPEG_PROFIT_THRESHOLD_MIN,
     min_price_scale_delta |-> ONE \div 100,
     ma_half_time |-> MIN_AMP_CHANGING_TIME]

PoolInstantiateMsgs ==
    {[asset_count |-> 2, init_params |-> Some(PoolInitParams)],
     [asset_count |-> 2, init_params |-> Some([PoolInitParams EXCEPT !.price_scale = 0])]}

Solver(curve, fail_at, step) == [curve |-> curve, fail_at |-> fail_at, step |-> step]

\* the solver failing at one call site of the handler
FailingAt(sites) == {Solver("sum", site, 2) : site \in sites}

\* a tenth of a token of each asset
Tenth == <<10 ^ (Precisions[1] - 1), 10 ^ (Precisions[2] - 1)>>

\* even and uneven deposits; then a zero amount, two deposits too small to
\* be the first (the second worth MINIMUM_LIQUIDITY_AMOUNT exactly), a third
\* asset, a zero amount with a failing solver, and the solver failing
ProvideCalls ==
    {[assets |-> Tenth, solver |-> Solver("sum", 0, 1)],
     [assets |-> <<2 * Tenth[1], Tenth[2]>>, solver |-> Solver("product", 0, 2)]}
    \cup {[assets |-> a, solver |-> Solver("sum", 0, 1)] :
            a \in {<<0, Tenth[2]>>,
                   <<MINIMUM_LIQUIDITY_AMOUNT \div 2, MINIMUM_LIQUIDITY_AMOUNT \div 20>>,
                   <<MINIMUM_LIQUIDITY_AMOUNT, MINIMUM_LIQUIDITY_AMOUNT \div 10>>,
                   <<Tenth[1], Tenth[2], 1>>}}
    \cup {[assets |-> <<Tenth[1], 0>>, solver |-> Solver("sum", 1, 1)]}
    \cup {[assets |-> <<2 * Tenth[1], Tenth[2]>>, solver |-> s] : s \in FailingAt(1..4)}

NoLimits == [belief_price |-> <<>>, max_spread |-> <<>>]

\* either asset offered; then a zero offer, an asset that is not in the pool,
\* a belief price the pool cannot meet, a spread beyond the allowed, and the
\* solver failing
SwapCalls ==
    {[offer |-> [ind |-> 1, amount |-> Tenth[1] \div 2], limits |-> NoLimits,
      solver |-> Solver("sum", 0, 1)],
     [offer |-> [ind |-> 2, amount |-> Tenth[2] \div 4], limits |-> NoLimits,
      solver |-> Solver("product", 0, 2)]}
    \cup {[offer |-> o, limits |-> NoLimits, solver |-> Solver("sum", 0, 1)] :
            o \in {[ind |-> 1, amount |-> 0], [ind |-> 0, amount |-> 1]}}
    \cup {[offer |-> [ind |-> 1, amount |-> Tenth[1] \div 2], limits |-> l,
           solver |-> Solver("sum", 0, 1)] :
            l \in {[belief_price |-> Some(ONE \div 2), max_spread |-> Some(MIN_FEE)],
                   [belief_price |-> <<>>, max_spread |-> Some(MAX_ALLOWED_SLIPPAGE + 1)]}}
    \cup {[offer |-> [ind |-> 1, amount |-> Tenth[1] \div 2], limits |-> NoLimits, solver |-> s] :
            s \in FailingAt(1..4)}

\* all or half of the LP tokens in users' hands; then a caller that is not the
\* LP token, an imbalanced withdrawal, and the solver failing
WithdrawCalls ==
    {[sender |-> LpToken, part |-> 1, assets |-> <<>>, solver |-> Solver("sum", 0, 1)],
     [sender |-> LpToken, part |-> 2, assets |-> <<>>, solver |-> Solver("product", 0, 2)]}
    \cup {[sender |-> "user", part |-> 1, assets |-> <<>>, solver |-> Solver("sum", 0, 1)],
          [sender |-> LpToken, part |-> 1, assets |-> <<1>>, solver |-> Solver("sum", 0, 1)],
          [sender |-> LpToken, part |-> 2, assets |-> <<>>, solver |-> Solver("sum", 1, 1)]}

ThresholdMsg(threshold) ==
    [kind |-> "Update", promote |-> NoPromote,
     update |-> [NoUpdate EXCEPT !.repeg_profit_threshold = Some(threshold)]]

PoolUpdateConfigMsgs ==
    {ThresholdMsg(REPEG_PROFIT_THRESHOLD_MAX), ThresholdMsg(REPEG_PROFIT_THRESHOLD_MAX + 1)}

NextPool ==
    \/ \E msg \in PoolInstantiateMsgs : Instantiate(msg)
    \/ Reply([id |-> INSTANTIATE_TOKEN_REPLY_ID, data |-> Some(LpToken)])
    \/ \E c \in ProvideCalls : ProvideLiquidity(c.assets, c.solver)
    \/ \E c \in SwapCalls : Swap(c.offer, c.limits.belief_price, c.limits.max_spread, c.solver)
    \/ \E c \in WithdrawCalls :
          WithdrawLiquidity(c.sender, lp.user \div c.part, c.assets, c.solver)
    \/ \E p \in PoolUpdateConfigMsgs : UpdateConfig(FactoryOwner, p)
    \/ UpdateConfig("user", ThresholdMsg(REPEG_PROFIT_THRESHOLD_MAX))
    \/ total_supply > 0 /\ Tick(MIN_AMP_CHANGING_TIME)

SpecPool == Init /\ [][NextPool]_vars

\* instantiate at any of three block times, then replies of every kind
NextReply ==
    \/ \E msg \in InstantiateMsgs \cup PoolInstantiateMsgs : Instantiate(msg)
    \/ \E msg \in ReplyMsgs : Reply(msg)
    \/ Tick(HalfDay)

SpecReply == Init /\ [][NextReply]_vars

SpecStaking == Init /\ [][NextStaking]_vars

SpecFactory == Init /\ [][NextFactory]_vars

SpecToken == Init /\ [][NextToken]_vars

SpecOracle == Init /\ [][NextOracle]_vars

(***************************************************************************)
(* Deposits taken back at once: a deposit into a pool that holds           *)
(* liquidity, then the withdrawal of exactly the LP tokens it minted.       *)
(***************************************************************************)
\* deposits of equal and of unequal worth, small and large
RoundTripDeposits ==
    {Tenth, <<2 * Tenth[1], Tenth[2]>>, <<Tenth[1], 2 * Tenth[2]>>,
     <<3 * Tenth[1], 3 * Tenth[2]>>, <<Tenth[1] \div 10, Tenth[2]>>}

RoundTripSolvers == {Solver("sum", 0, 1), Solver("product", 0, 2)}

\* the receiver of a deposit sends the LP tokens it minted to the LP token
\* contract, which passes them on with Cw20HookMsg::WithdrawLiquidity
WithdrawMinted(solver) ==
    /\ last.op = "provide_liquidity"
    /\ last.ok
    /\ WithdrawLiquidity(LpToken, last.messages.mint[2], <<>>, solver)

NextRoundTrip ==
    \/ \E msg \in PoolInstantiateMsgs : Instantiate(msg)
    \/ Reply([id |-> INSTANTIATE_TOKEN_REPLY_ID, data |-> Some(LpToken)])
    \/ \E assets \in RoundTripDeposits, solver \in RoundTripSolvers :
          ProvideLiquidity(assets, solver)
    \/ \E solver \in RoundTripSolvers : WithdrawMinted(solver)
    \/ total_supply > 0 /\ Tick(MIN_AMP_CHANGING_TIME)

SpecRoundTrip == Init /\ [][NextRoundTrip]_vars

(***************************************************************************)
(* The parameters on their own: instantiate with each parameter taken      *)
(* through its range, then updates that set one field or two.              *)
(***************************************************************************)
\* the range of each parameter (consts.rs)
ParamRange ==
    [amp |-> <<AMP_MIN, AMP_MAX>>,
     gamma |-> <<GAMMA_MIN, GAMMA_MAX>>,
     mid_fee |-> <<MIN_FEE, MAX_FEE>>,
     out_fee |-> <<MIN_FEE, MAX_FEE>>,
     fee_gamma |-> <<FEE_GAMMA_MIN, FEE_GAMMA_MAX>>,
     repeg_profit_threshold |-> <<REPEG_PROFIT_THRESHOLD_MIN, REPEG_PROFIT_THRESHOLD_MAX>>,
     min_price_scale_delta |-> <<PRICE_SCALE_DELTA_MIN, PRICE_SCALE_DELTA_MAX>>,
     ma_half_time |-> <<0, MA_HALF_TIME_MAX>>]

\* the ends of a parameter's range and the values next to them outside it
\* (the parameters are unsigned)
AroundRange(f) ==
    {ParamRange[f][1], ParamRange[f][2], ParamRange[f][2] + 1}
    \cup (IF ParamRange[f][1] > 0 THEN {ParamRange[f][1] - 1} ELSE {})

InstantiateWith(f, values) ==
    {[asset_count |-> 2, init_params |-> Some([PoolInitParams EXCEPT ![f] = v])] : v \in values}

ParamInstantiateMsgs ==
    UNION {InstantiateWith(f, {ParamRange[f][1], ParamRange[f][2]}) : f \in DOMAIN ParamRange}
    \cup UNION {InstantiateWith(f, AroundRange(f)) :
                  f \in {"amp", "gamma", "mid_fee", "out_fee", "fee_gamma"}}
    \cup {[asset_count |-> 2, init_params |-> Some([PoolInitParams EXCEPT !.price_scale = 0])]}

UpdateFields(u) == [kind |-> "Update", promote |-> NoPromote, update |-> u]

\* one field set, or mid_fee and out_fee together
ParamUpdates ==
    UNION {{[NoUpdate EXCEPT ![f] = Some(v)] : v \in AroundRange(f)} :
             f \in {"mid_fee", "out_fee", "fee_gamma"}}
    \cup {[NoUpdate EXCEPT ![f] = Some(ParamRange[f][2] + 1)] :
            f \in {"repeg_profit_threshold", "min_price_scale_delta", "ma_half_time"}}
    \cup {[NoUpdate EXCEPT ![f] = Some(ParamRange[f][2])] :
            f \in {"repeg_profit_threshold", "ma_half_time"}}
    \cup {[NoUpdate EXCEPT !.mid_fee = Some(m), !.out_fee = Some(o)] :
            m \in {PoolInitParams.mid_fee, MAX_FEE}, o \in {PoolInitParams.out_fee}}

NextParams ==
    \/ \E msg \in ParamInstantiateMsgs : Instantiate(msg)
    \/ \E u \in ParamUpdates : UpdateConfig(FactoryOwner, UpdateFields(u))

SpecParams == Init /\ [][NextParams]_vars

(***************************************************************************)
(* Functions applied on their own: the arguments are drawn first, then the *)
(* function is applied to them.                                            *)
(***************************************************************************)
Drawn(f, args) == [f |-> f, args |-> args, out |-> <<>>]

InitApplied(inputs) ==
    /\ CONFIG = <<>>
    /\ now = StartTime
    /\ bank = <<0, 0>>
    /\ lp = [pair |-> 0, user |-> 0]
    /\ calls = 0
    /\ last = [op |-> "none", ok |-> TRUE, err |-> "", saved |-> FALSE, after_save |-> <<>>,
               price |-> <<>>, funds |-> <<0, 0>>, messages |-> NoMessages]
    /\ applied \in inputs
    /\ staking = StakingInit
    /\ factory = FactoryInit
    /\ token = TokenInit
    /\ oracle = OracleInit

\* balances from one unit to a hundred tokens
FeeBalances == {1, 3, ONE \div 10, ONE, 3 * ONE, 100 * ONE}

\* every PoolParams of the grid that update_params accepts
FeeParams ==
    {p \in [mid_fee : {MIN_FEE, 3 * MIN_FEE, MAX_FEE},
            out_fee : {MIN_FEE, 10 * MIN_FEE, MAX_FEE},
            fee_gamma : {FEE_GAMMA_MIN, FEE_GAMMA_MAX \div 2, FEE_GAMMA_MAX},
            repeg_profit_threshold : {REPEG_PROFIT_THRESHOLD_MIN},
            min_price_scale_delta : {PRICE_SCALE_DELTA_MIN},
            ma_half_time : {MIN_AMP_CHANGING_TIME}] :
        update_params(PoolParams_default, [f \in DOMAIN p |-> Some(p[f])]).ok}

ComputeFee ==
    /\ applied.f = "compute_fee" /\ applied.out = <<>>
    /\ applied' = [applied EXCEPT !.out =
                      <<[g |-> fee_coefficient(applied.args.xs, applied.args.pool_params),
                         fee |-> compute_fee(applied.args.xs, applied.args.pool_params)]>>]
    /\ UNCHANGED <<CONFIG, now, bank, lp, calls, last, others>>

SpecFee ==
    /\ InitApplied({Drawn("compute_fee", [xs |-> <<a, b>>, pool_params |-> p]) :
                        a \in FeeBalances, b \in FeeBalances, p \in FeeParams})
    /\ [][ComputeFee]_vars

\* every PoolParams of the grid that update_params accepts, ma_half_time from
\* one end of MA_HALF_TIME_LIMITS to the other
PriceParams ==
    {p \in [mid_fee : {MIN_FEE}, out_fee : {MAX_FEE}, fee_gamma : {FEE_GAMMA_MIN},
            repeg_profit_threshold : {REPEG_PROFIT_THRESHOLD_MIN},
            min_price_scale_delta : {PRICE_SCALE_DELTA_MIN},
            ma_half_time : {0, 1, MIN_AMP_CHANGING_TIME, MA_HALF_TIME_MAX, MA_HALF_TIME_MAX + 1}] :
        update_params(PoolParams_default, [f \in DOMAIN p |-> Some(p[f])]).ok}

\* prices from a half to two, one of them odd in its last place
Prices == {ONE \div 2, ONE, ONE + 1, 2 * ONE}

\* no time, a second, half a day, a day and seven days
Elapsed == {0, 1, HalfDay, MIN_AMP_CHANGING_TIME, MA_HALF_TIME_MAX}

\* a pool of one token of each asset and one LP token, its moving average at
\* oracle_price, last updated at StartTime
PricedPool(oracle_price) ==
    [instantiate_pool_state([price_scale |-> ONE], [amp |-> MidAmp, gamma |-> MidGamma], StartTime)
        EXCEPT !.price_state.oracle_price = oracle_price, !.price_state.xcp_profit = ONE,
               !.price_state.xcp = ONE]

UpdatePrice ==
    /\ applied.f = "update_price" /\ applied.out = <<>>
    /\ applied' = [applied EXCEPT !.out =
                      <<update_price(PricedPool(applied.args.oracle_price),
                                     applied.args.pool_params,
                                     StartTime + applied.args.elapsed, ONE, <<ONE, ONE>>,
                                     applied.args.last_price, applied.args.solver, 1)>>]
    /\ UNCHANGED <<CONFIG, now, bank, lp, calls, last, others>>

SpecPrice ==
    /\ InitApplied({Drawn("update_price",
                          [oracle_price |-> o, last_price |-> l, elapsed |-> e,
                           pool_params |-> p, solver |-> Solver("sum", fail_at, 2)]) :
                        o \in Prices, l \in Prices, e \in Elapsed, p \in PriceParams,
                        fail_at \in 0..2})
    /\ [][UpdatePrice]_vars

(***************************************************************************)
(* The generator's reward debts (contracts/tokenomics/generator, state.rs) *)
(* applied on their own.  A RestrictedVector is a sequence of pairs of a   *)
(* proxy and a value; rewards per share are Decimals in units of 1/ONE.    *)
(***************************************************************************)
\* HashMap::get on the collected pairs: the value of the last pair of the
\* proxy, if there is one (state.rs 184-185, 217-218)
hashmap_get(pairs, proxy) ==
    LET at == {i \in DOMAIN pairs : pairs[i][1] = proxy}
    IN  IF at = {} THEN <<>> ELSE <<pairs[CHOOSE i \in at : \A j \in at : j <= i][2]>>

\* Decimal::checked_mul(Uint128), rounded down
decimal_checked_mul(rewards_per_share, amount) == MulDiv(rewards_per_share, amount, ONE)

saturating_sub(a, b) == IF a >= b THEN a - b ELSE 0

\* state.rs 168-206
update_user_balance(user, pool, amount) ==
    LET rewarded == [user EXCEPT
                        !.amount = amount,
                        !.reward_debt =
                            IF pool.accumulated_rewards_per_share # 0
                            THEN decimal_checked_mul(pool.accumulated_rewards_per_share, amount)
                            ELSE @]
    IN  IF pool.accumulated_proxy_rewards_per_share # <<>>
        THEN [rewarded EXCEPT !.reward_debt_proxy =
                 [i \in DOMAIN pool.accumulated_proxy_rewards_per_share |->
                     LET proxy == pool.accumulated_proxy_rewards_per_share[i][1]
                         rewards_per_share == pool.accumulated_proxy_rewards_per_share[i][2]
                         reward_debt == hashmap_get(user.reward_debt_proxy, proxy)
                     IN  <<proxy,
                           saturating_sub(decimal_checked_mul(rewards_per_share, amount),
                                          IF reward_debt = <<>> THEN 0 ELSE reward_debt[1])>>]]
        ELSE rewarded

\* state.rs 208-237: the pending rewards of every proxy whose rewards per
\* share are not zero; a proxy without a debt of the user is an error
accumulate_pool_proxy_rewards(pool, user) ==
    LET shares == SelectSeq(pool.accumulated_proxy_rewards_per_share, LAMBDA e : e[2] # 0)
    IN  IF \E i \in DOMAIN shares : hashmap_get(user.reward_debt_proxy, shares[i][1]) = <<>>
        THEN Err("Inconsistent proxy rewards state.", <<>>)
        ELSE Ok([i \in DOMAIN shares |->
                    <<shares[i][1],
                      saturating_sub(decimal_checked_mul(shares[i][2], user.amount),
                                     hashmap_get(user.reward_debt_proxy, shares[i][1])[1])>>])

\* the pools of no, one and two proxies, with rewards per share from nothing
\* to two, and the users with any debt to each proxy, or none
Proxies == <<"proxy1", "proxy2">>
RewardsPerShare == {0, ONE \div 2, ONE, 2 * ONE}
RewardDebts == {0, 1, 3}
StakedAmounts == {0, 1, 2, 5}
ProxyPairs(values) == [i \in DOMAIN values |-> <<Proxies[i], values[i]>>]
GeneratorPools ==
    {[accumulated_rewards_per_share |-> ONE,
      accumulated_proxy_rewards_per_share |-> ProxyPairs(v)] :
        v \in UNION {[1..n -> RewardsPerShare] : n \in 0..2}}
GeneratorUsers ==
    {[amount |-> a, reward_debt |-> 0, reward_debt_proxy |-> ProxyPairs(v)] :
        a \in {0, 2}, v \in UNION {[1..n -> RewardDebts] : n \in 0..2}}

UpdateUserBalance ==
    /\ applied.f = "update_user_balance" /\ applied.out = <<>>
    /\ LET pool == applied.args.pool
           user == update_user_balance(applied.args.user, pool, applied.args.amount)
       IN  applied' = [applied EXCEPT !.out =
                          <<[user |-> user, pool |-> pool,
                             pending |-> accumulate_pool_proxy_rewards(pool, user)]>>]
    /\ UNCHANGED <<CONFIG, now, bank, lp, calls, last, others>>

SpecGenerator ==
    /\ InitApplied({Drawn("update_user_balance", [user |-> u, pool |-> p, amount |-> a]) :
                        u \in GeneratorUsers, p \in GeneratorPools, a \in StakedAmounts})
    /\ [][UpdateUserBalance]_vars

(***************************************************************************)
(* Helpers of the properties.                                              *)
(***************************************************************************)
PoolState == Config.pool_state

InBounds(ag) ==
    /\ AMP_MIN <= ag.amp /\ ag.amp <= AMP_MAX
    /\ GAMMA_MIN <= ag.gamma /\ ag.gamma <= GAMMA_MAX

\* the times at which a pool state is read: the ends of its window, the times
\* next to them, its middle, the block time and times after it
ProbeTimes(ps) ==
    {0, ps.initial_time, ps.initial_time + 1, (ps.initial_time + ps.future_time) \div 2,
     Max(ps.future_time - 1, 0), ps.future_time, ps.future_time + 1,
     now, now + 1, now + HalfDay, MaxTime + MIN_AMP_CHANGING_TIME}

\* a * b <= c * d, from the quotients and remainders of both products by 2^15
ProdLeq(a, b, c, d) ==
    LET l == MulDivRem(a, b, 32768)
        r == MulDivRem(c, d, 32768)
    IN  l[1] < r[1] \/ (l[1] = r[1] /\ l[2] <= r[2])

\* r is from + (to - from) * passed / total, truncated towards from
Linear(from, to, passed, total, r) ==
    LET d == AbsDiff(to, from)
        q == AbsDiff(r, from)
    IN  /\ (to >= from => r >= from) /\ (to <= from => r <= from)
        /\ ProdLeq(q, total, d, passed)
        /\ ~ProdLeq(q + 1, total, d, passed)

\* this step is a call of an entry point (block time stands still during it)
Called(op) == now' = now /\ last'.op = op

\* the promote message that keeps both values, over the window w
KeepMsg(w) ==
    LET cur == get_amp_gamma(PoolState, now)
    IN  PromoteMsg(cur.amp, cur.gamma, now + w)

\* the price state as persisted
PriceState == Config.pool_state.price_state

\* the entry points that write Config once the pool exists
ConfigWriters ==
    {"swap", "provide_liquidity", "withdraw_liquidity",
     "Update", "Promote", "StopChangingAmpGamma"}

\* this step is a successful swap or deposit in which update_price tried a
\* candidate price_scale
TriedCandidate ==
    /\ CONFIG # <<>>
    /\ calls' = calls + 1
    /\ last'.op \in {"swap", "provide_liquidity"}
    /\ last'.price # <<>>
    /\ last'.price[1] # <<>>

(***************************************************************************)
(* C1: the persisted xcp_profit never decreases: across every step that    *)
(* leaves a Config behind (a successful swap, provide_liquidity,           *)
(* withdraw_liquidity or update_config among them) the xcp_profit of the   *)
(* Config after the step is at least that of the Config before it.         *)
(***************************************************************************)
C1_Step ==
    (CONFIG # <<>> /\ CONFIG' # <<>>)
        => CONFIG'[1].pool_state.price_state.xcp_profit >= PriceState.xcp_profit

C1_ProfitNeverDecreases == [][C1_Step]_vars

\* a deposit into a pool whose profit has risen above one, which it keeps
C1_Witness ==
    /\ CONFIG # <<>>
    /\ last.op = "provide_liquidity" /\ last.ok
    /\ lp.pair = MINIMUM_LIQUIDITY_AMOUNT
    /\ calls = MaxCalls
    /\ PriceState.xcp_profit > ONE

(***************************************************************************)
(* C2: when the candidate price_scale tried by update_price gives an       *)
(* xcp_profit below xcp_profit * (1 + repeg_profit_threshold), the call    *)
(* persists the price_scale and the xcp_profit it found, while             *)
(* oracle_price is still updated: it becomes the moving average blended    *)
(* with the trade's price, and last_price_update becomes the block time.   *)
(***************************************************************************)
C2_Step ==
    (/\ TriedCandidate
     /\ last'.price[1][1].xcp_profit
            < MulDiv(PriceState.xcp_profit,
                     ONE + Config.pool_params.repeg_profit_threshold, ONE))
        => LET after == CONFIG'[1].pool_state.price_state
           IN  /\ after.price_scale = PriceState.price_scale
               /\ after.xcp_profit = PriceState.xcp_profit
               /\ after.oracle_price
                     = blend(PriceState, Config.pool_params, now, after.last_price)
               /\ after.last_price_update = now

C2_RejectedRepegKeepsScale == [][C2_Step]_vars

\* a swap whose candidate was turned down: price_scale is not the candidate
\* and the oracle price has moved away from it
C2_Witness ==
    /\ CONFIG # <<>>
    /\ last.op = "swap" /\ last.ok
    /\ last.price # <<>> /\ last.price[1] # <<>>
    /\ last.price[1][1].price_scale # PriceState.price_scale
    /\ last.price[1][1].xcp_profit < PriceState.xcp_profit
    /\ PriceState.oracle_price # PriceState.price_scale
    /\ PriceState.last_price_update = now

(***************************************************************************)
(* C3: a call of swap, provide_liquidity, withdraw_liquidity or            *)
(* update_config that returns an error leaves the persisted Config as it   *)
(* was before the call.                                                    *)
(***************************************************************************)
C3_ErrorStep ==
    (CONFIG # <<>> /\ now' = now /\ last'.op \in ConfigWriters /\ ~last'.ok)
        => CONFIG' = CONFIG

\* as stated, with its second half: Config is written only after every check
\* and computation of the call has succeeded, so nothing that can fail runs
\* after CONFIG.save
C3_Original ==
    [][C3_ErrorStep /\ (last'.saved => last'.after_save = <<>>)]_vars

\* in swap one fallible computation, the conversion of total_fee for the
\* commission_amount attribute, runs after CONFIG.save
C3_SaveThenConvert ==
    last.saved =>
        /\ last.ok
        /\ last.after_save = IF last.op = "swap" THEN <<"total_fee.to_uint">> ELSE <<>>

\* C3 amended: an erroring call leaves the persisted Config as it was, and
\* every error met was returned before CONFIG.save.  provide_liquidity,
\* withdraw_liquidity and update_config run nothing fallible after
\* CONFIG.save; swap runs one fallible conversion after it.
C3_Amended ==
    [][C3_ErrorStep /\ C3_SaveThenConvert']_vars

\* a swap refused by a pool that holds liquidity and has made a profit
C3_Witness ==
    /\ CONFIG # <<>>
    /\ last.op = "swap" /\ ~last.ok /\ ~last.saved
    /\ lp.user > 0
    /\ PriceState.xcp_profit > ONE

(***************************************************************************)
(* C11: for positive balances xs and validated PoolParams, compute_fee     *)
(* returns a rate with mid_fee <= fee <= out_fee, which is                 *)
(* mid_fee + (out_fee - mid_fee) * g for a coefficient g in [0, 1] that is *)
(* zero when the balances are even.                                        *)
(***************************************************************************)
C11_FeeWithinBounds ==
    (applied.f = "compute_fee" /\ applied.out # <<>>) =>
        LET p == applied.args.pool_params
            r == applied.out[1]
        IN  /\ p.mid_fee <= r.fee /\ r.fee <= p.out_fee
            /\ 0 <= r.g /\ r.g <= ONE
            /\ r.fee = p.mid_fee + MulDiv(p.out_fee - p.mid_fee, r.g, ONE)
            /\ (applied.args.xs[1] = applied.args.xs[2] => r.fee = p.mid_fee)

\* a pool a hundred to one out of balance is charged above mid_fee
C11_Witness ==
    /\ applied.f = "compute_fee" /\ applied.out # <<>>
    /\ applied.args.xs = <<100 * ONE, ONE>>
    /\ applied.args.pool_params.fee_gamma = FEE_GAMMA_MIN
    /\ applied.out[1].fee > applied.args.pool_params.mid_fee
    /\ applied.out[1].g > ONE \div 2

\* every field of the stored PoolParams is within its range
WithinRange(pool_params) ==
    /\ \A f \in DOMAIN pool_params :
          ParamRange[f][1] <= pool_params[f] /\ pool_params[f] <= ParamRange[f][2]
    /\ pool_params.mid_fee <= pool_params.out_fee

(***************************************************************************)
(* C12: after any sequence of instantiate and update_pool_params calls,    *)
(* each setting any subset of the fields, the stored PoolParams have       *)
(* MIN_FEE <= mid_fee <= out_fee <= MAX_FEE and fee_gamma,                 *)
(* repeg_profit_threshold, min_price_scale_delta and ma_half_time within   *)
(* their ranges; a rejected update leaves the stored params unchanged.     *)
(***************************************************************************)
C12_Step ==
    /\ CONFIG' # <<>> => WithinRange(CONFIG'[1].pool_params)
    /\ (CONFIG # <<>> /\ Called("Update") /\ ~last'.ok) => CONFIG' = CONFIG
    /\ \A u \in ParamUpdates :
          (/\ CONFIG # <<>>
           /\ UpdateConfig(FactoryOwner, UpdateFields(u))
           /\ ~WithinRange(Merged(Config.pool_params, u)))
            => (~last'.ok /\ CONFIG' = CONFIG)

C12_ParamsStayValid == [][C12_Step]_vars

\* an update of one field was accepted and a later one rejected: out_fee was
\* lowered to its minimum, which mid_fee then may not leave
C12_Witness ==
    /\ CONFIG # <<>>
    /\ last.op = "Update" /\ ~last.ok
    /\ Config.pool_params.mid_fee = MIN_FEE
    /\ Config.pool_params.out_fee = MIN_FEE
    /\ Config.pool_params.fee_gamma = FEE_GAMMA_MAX

(***************************************************************************)
(* C13: instantiate fails and creates no pool state when the initial       *)
(* price_scale is zero or when amp, gamma or a fee parameter (mid_fee,     *)
(* out_fee, fee_gamma) is outside its range.                               *)
(***************************************************************************)
C13_Rejected(params) ==
    \/ params.price_scale = 0
    \/ \E f \in {"amp", "gamma", "mid_fee", "out_fee", "fee_gamma"} :
          params[f] < ParamRange[f][1] \/ params[f] > ParamRange[f][2]

C13_Step ==
    \A msg \in ParamInstantiateMsgs :
        (Instantiate(msg) /\ C13_Rejected(msg.init_params[1]))
            => (~last'.ok /\ ~last'.saved /\ CONFIG' = <<>>)

C13_InstantiateValidates == [][C13_Step]_vars

\* an instantiate was refused and there is no pool
C13_Witness ==
    /\ CONFIG = <<>>
    /\ last.op = "instantiate" /\ ~last.ok /\ ~last.saved

\* this step is a successful deposit
Provided == calls' = calls + 1 /\ last'.op = "provide_liquidity"

(***************************************************************************)
(* C14: the first deposit into an empty pool (LP supply zero) mints        *)
(* MINIMUM_LIQUIDITY_AMOUNT to the pool contract itself, mints to the      *)
(* receiver xcp converted to the LP token's precision less                 *)
(* MINIMUM_LIQUIDITY_AMOUNT, and sets xcp_profit to one.                   *)
(***************************************************************************)
C14_Step ==
    (Provided /\ total_supply = 0) =>
        LET after == CONFIG'[1].pool_state.price_state
        IN  /\ lp'.pair = MINIMUM_LIQUIDITY_AMOUNT
            /\ lp'.user = to_uint(after.xcp, LP_TOKEN_PRECISION).v - MINIMUM_LIQUIDITY_AMOUNT
            /\ lp'.user > 0
            /\ after.xcp_profit = ONE

C14_FirstDeposit == [][C14_Step]_vars

\* the first deposit has been made: a tenth of a token of each asset
C14_Witness ==
    /\ CONFIG # <<>>
    /\ calls = 1
    /\ last.op = "provide_liquidity" /\ last.ok
    /\ bank = Tenth
    /\ lp.pair = MINIMUM_LIQUIDITY_AMOUNT
    /\ lp.user > MINIMUM_LIQUIDITY_AMOUNT
    /\ PriceState.xcp_profit = ONE

(***************************************************************************)
(* C15: once the first deposit has succeeded the pool contract holds       *)
(* MINIMUM_LIQUIDITY_AMOUNT LP tokens for good: the LP supply stays at or  *)
(* above it through every deposit and withdrawal, and no later deposit     *)
(* takes the empty-pool branch (none mints to the pool contract again or   *)
(* sets xcp_profit back to one).                                           *)
(***************************************************************************)
C15_Step ==
    total_supply > 0 =>
        /\ lp.pair = MINIMUM_LIQUIDITY_AMOUNT
        /\ lp'.pair = MINIMUM_LIQUIDITY_AMOUNT
        /\ lp'.user >= 0
        /\ total_supply' >= MINIMUM_LIQUIDITY_AMOUNT
        /\ Provided =>
              CONFIG'[1].pool_state.price_state.xcp_profit >= PriceState.xcp_profit

C15_MinimumLiquidityLocked == [][C15_Step]_vars

\* every LP token in users' hands has been withdrawn and the pool's remain
C15_Witness ==
    /\ CONFIG # <<>>
    /\ last.op = "withdraw_liquidity" /\ last.ok
    /\ lp.user = 0
    /\ lp.pair = MINIMUM_LIQUIDITY_AMOUNT
    /\ bank[1] > 0 /\ bank[2] > 0

\* a call that returned an error: nothing is minted, burnt, paid or stored
NothingChanged ==
    /\ ~last'.ok
    /\ CONFIG' = CONFIG
    /\ lp' = lp
    /\ bank' = bank

(***************************************************************************)
(* C16: a first deposit whose share, xcp converted to the LP token's       *)
(* precision, is at most MINIMUM_LIQUIDITY_AMOUNT fails with               *)
(* MinimumLiquidityAmountError; no LP tokens are minted and Config is      *)
(* unchanged.                                                              *)
(***************************************************************************)
C16_TooSmall(assets, solver) ==
    LET price_scale == PriceState.price_scale
        new_xp == <<with_precision(assets[1], Precisions[1]),
                    MulDiv(with_precision(assets[2], Precisions[2]), price_scale, ONE)>>
        new_d == calc_d(new_xp, get_amp_gamma(PoolState, now), At(solver, 1))
    IN  /\ assets[1] > 0 /\ assets[2] > 0
        /\ new_d.ok
        /\ to_uint(get_xcp(new_d.v, price_scale), LP_TOKEN_PRECISION).v
              <= MINIMUM_LIQUIDITY_AMOUNT

C16_Step ==
    \A c \in ProvideCalls :
        (/\ CONFIG # <<>>
         /\ Config.liquidity_token # ""
         /\ total_supply = 0
         /\ Len(c.assets) = 2
         /\ ProvideLiquidity(c.assets, c.solver)
         /\ C16_TooSmall(c.assets, c.solver))
            => /\ last'.err = "MinimumLiquidityAmountError"
               /\ NothingChanged

C16_MinimumLiquidityError == [][C16_Step]_vars

\* the empty pool refused a deposit as too small
C16_Witness ==
    /\ CONFIG # <<>>
    /\ Config.liquidity_token # ""
    /\ last.op = "provide_liquidity"
    /\ last.err = "MinimumLiquidityAmountError"
    /\ total_supply = 0
    /\ PriceState.xcp_profit = 0

(***************************************************************************)
(* C17: provide_liquidity with either of the two amounts zero fails with   *)
(* InvalidZeroAmount before any solver call (also when the solver would    *)
(* fail); no LP tokens are minted and Config is unchanged.                 *)
(***************************************************************************)
C17_Step ==
    \A c \in ProvideCalls :
        (/\ CONFIG # <<>>
         /\ Len(c.assets) = 2
         /\ c.assets[1] = 0 \/ c.assets[2] = 0
         /\ ProvideLiquidity(c.assets, c.solver))
            => /\ last'.err = "InvalidZeroAmount"
               /\ NothingChanged

C17_ZeroAmount == [][C17_Step]_vars

\* a pool that holds liquidity refused a deposit with a zero amount
C17_Witness ==
    /\ CONFIG # <<>>
    /\ last.op = "provide_liquidity"
    /\ last.err = "InvalidZeroAmount"
    /\ lp.user > 0

(***************************************************************************)
(* C18: withdraw_liquidity with a non-empty assets list fails with         *)
(* "Imbalanced withdraw is currently disabled"; nothing is burnt, nothing  *)
(* is refunded and Config is unchanged.                                    *)
(***************************************************************************)
C18_Step ==
    \A c \in WithdrawCalls :
        (/\ CONFIG # <<>>
         /\ c.sender = Config.liquidity_token
         /\ c.assets # <<>>
         /\ WithdrawLiquidity(c.sender, lp.user \div c.part, c.assets, c.solver))
            => /\ last'.err = "Imbalanced withdraw is currently disabled"
               /\ NothingChanged

Withdrawn == calls' = calls + 1 /\ last'.op = "withdraw_liquidity" /\ last'.ok

C19_Step ==
    Withdrawn =>
        /\ lp'.user < lp.user
        /\ CONFIG' = <<[Config EXCEPT !.pool_state.price_state.xcp =
                                          CONFIG'[1].pool_state.price_state.xcp]>>

C19_WithdrawWritesOnlyXcp == [][C19_Step]_vars

\* part of the liquidity was withdrawn later than the last accumulation of
\* prices, and after a trade had moved the prices
C19_Witness ==
    /\ CONFIG # <<>>
    /\ last.op = "withdraw_liquidity" /\ last.ok
    /\ lp.user > 0
    /\ now > Config.block_time_last
    /\ PriceState.xcp > 0
    /\ PriceState.last_price # PriceState.price_scale

(***************************************************************************)
(* C20: for a pool that holds liquidity and any deposit, balanced or not,  *)
(* provide_liquidity followed at once by withdraw_liquidity of exactly the *)
(* minted share returns amounts equal to the deposited amounts up to a     *)
(* rounding tolerance.                                                     *)
(***************************************************************************)
\* what rounding may take: a few of the smallest units of an asset
RoundingTolerance == 10

\* the withdrawal of what the deposit before it minted, from a pool that
\* held liquidity before the deposit
RoundTrip ==
    /\ last.op = "provide_liquidity" /\ last.ok
    /\ last.messages.mint[1] = 0
    /\ Withdrawn
    /\ last'.messages.burn = last.messages.mint[2]

C20_Returned(i) == last'.messages.out[i]
C20_Deposited(i) == last.funds[i]

C20_OriginalStep ==
    RoundTrip => \A i \in 1..2 : AbsDiff(C20_Returned(i), C20_Deposited(i)) <= RoundingTolerance

C20_Original == [][C20_OriginalStep]_vars

\* the deposit was in the proportion of the pool's balances
C20_Proportional == ProdLeq(C20_Deposited(1), bank[2], C20_Deposited(2), bank[1])
                    /\ ProdLeq(C20_Deposited(2), bank[1], C20_Deposited(1), bank[2])

\* the two amounts of the deposit were of the same worth at price_scale
C20_Even ==
    with_precision(C20_Deposited(1), Precisions[1])
        = MulDiv(with_precision(C20_Deposited(2), Precisions[2]), PriceState.price_scale, ONE)

\* Amended: the withdrawal returns the pool's balances pro rata to the share
\* burnt, never more of both assets than was deposited; it returns the
\* deposited amounts up to rounding when the deposit was in the proportion of
\* the pool's balances and its two amounts were of the same worth.
C20_AmendedStep ==
    RoundTrip =>
        /\ \A i \in 1..2 :
              AbsDiff(C20_Returned(i), MulDiv(bank[i], last.messages.mint[2], total_supply))
                  <= RoundingTolerance
        /\ \E i \in 1..2 : C20_Returned(i) <= C20_Deposited(i)
        /\ (C20_Proportional /\ C20_Even) =>
              \A i \in 1..2 : AbsDiff(C20_Returned(i), C20_Deposited(i)) <= RoundingTolerance

C20_Amended == [][C20_AmendedStep]_vars

\* a deposit was taken back at once and what the pool holds is not what the
\* first deposit left in it: the amounts returned were not the amounts
\* deposited
C20_Witness ==
    /\ last.op = "withdraw_liquidity" /\ last.ok
    /\ lp.user > 0
    /\ last.messages.burn > 0
    /\ \A d \in RoundTripDeposits :
          \E i \in 1..2 : AbsDiff(bank[i], d[i]) > RoundingTolerance

(***************************************************************************)
(* C21: a successful swap of a positive offer on a balanced pool returns   *)
(* less than the offer, and D of the balances after the swap (the offer    *)
(* added, dy and the maker fee taken off) is at least D before it.         *)
(***************************************************************************)
\* the balances as the solver takes them: Decimals, asset 2 at price_scale
C21_Internal(balances, price_scale) ==
    <<query_pools(balances)[1], MulDiv(query_pools(balances)[2], price_scale, ONE)>>

C21_Balanced ==
    /\ total_supply > 0
    /\ C21_Internal(bank, PriceState.price_scale)[1]
          = C21_Internal(bank, PriceState.price_scale)[2]

\* D of balances under the curve the swap was computed with
C21_D(balances, curve) ==
    calc_d(C21_Internal(balances, PriceState.price_scale), get_amp_gamma(PoolState, now),
           [curve |-> curve, converged |-> TRUE]).v

C21_Step ==
    \A c \in SwapCalls :
        (/\ CONFIG # <<>>
         /\ C21_Balanced
         /\ Swap(c.offer, c.limits.belief_price, c.limits.max_spread, c.solver)
         /\ last'.ok)
            => /\ c.offer.amount > 0
               /\ bank'[c.offer.ind] = bank[c.offer.ind] + c.offer.amount
               /\ bank'[3 - c.offer.ind] < bank[3 - c.offer.ind]
               /\ C21_Internal(bank, PriceState.price_scale)[3 - c.offer.ind]
                     - C21_Internal(bank', PriceState.price_scale)[3 - c.offer.ind]
                   < C21_Internal(bank', PriceState.price_scale)[c.offer.ind]
                     - C21_Internal(bank, PriceState.price_scale)[c.offer.ind]
               /\ C21_D(bank', c.solver.curve) >= C21_D(bank, c.solver.curve)

C21_SwapKeepsD == [][C21_Step]_vars

\* a swap on a pool that held equal worths of both assets: it now holds more
\* of the one and less of the other
C21_Witness ==
    /\ CONFIG # <<>>
    /\ last.op = "swap" /\ last.ok
    /\ last.funds[1] > 0
    /\ last.messages.out[2] > 0
    /\ bank[1] - last.funds[1] = 10 * (bank[2] + last.messages.out[2])

(***************************************************************************)
(* C22: a swap whose price deviates from the caller's belief_price by more *)
(* than max_spread fails before update_price runs: no tokens are sent, the *)
(* price state and Config are as before, and a later swap on the pool can  *)
(* still succeed.                                                          *)
(***************************************************************************)
\* what compute_swap returns for the offer on the pool as it is
C22_SwapResult(offer, solver) ==
    compute_swap(query_pools(bank), with_precision(offer.amount, Precisions[offer.ind]),
                 3 - offer.ind, Config, now, FeeInfo.maker_fee_rate, solver)

\* the return falls short of offer / belief_price by more than max_spread
C22_Deviates(offer, limits, solver) ==
    LET expected == MulDiv(with_precision(offer.amount, Precisions[offer.ind]), ONE,
                           limits.belief_price[1])
        dy == C22_SwapResult(offer, solver).v.dy
    IN  /\ C22_SwapResult(offer, solver).ok
        /\ dy < expected
        /\ MulDiv(expected - dy, ONE, expected) > limits.max_spread[1]

C22_Step ==
    \A c \in SwapCalls :
        (/\ CONFIG # <<>>
         /\ c.offer.ind \in 1..2
         /\ c.limits.belief_price # <<>>
         /\ c.limits.max_spread # <<>>
         /\ c.limits.max_spread[1] <= MAX_ALLOWED_SLIPPAGE
         /\ bank[1] > 0 /\ bank[2] > 0
         /\ Swap(c.offer, c.limits.belief_price, c.limits.max_spread, c.solver)
         /\ C22_Deviates(c.offer, c.limits, c.solver))
            => /\ last'.err = "MaxSpreadAssertion"
               /\ last'.price = <<>>
               /\ NothingChanged
               /\ swap(CONFIG'[1], now', bank', total_supply', c.offer, <<>>, <<>>, c.solver).ok

C22_SpreadAssertion == [][C22_Step]_vars

\* a pool that holds liquidity refused a swap for its spread
C22_Witness ==
    /\ CONFIG # <<>>
    /\ last.op = "swap"
    /\ last.err = "MaxSpreadAssertion"
    /\ bank[1] > 0 /\ bank[2] > 0
    /\ total_supply > 0

(***************************************************************************)
(* C23: calc_d never returns an unconverged value: where Newton's method   *)
(* does not converge within MAX_ITER iterations it returns an error, and   *)
(* the swap, provide_liquidity or withdraw_liquidity that called it aborts *)
(* with nothing persisted.                                                 *)
(***************************************************************************)
NotConverging == {"calc_d is not converging", "calc_y is not converging"}

\* the solver that converges at every call site
C23_Converging(solver) == [solver EXCEPT !.fail_at = 0]

\* the call aborted, or it did not reach the call site at which the solver
\* fails and returned what it returns with a solver that converges
C23_AbortedOr(unreached) ==
    IF last'.err \in NotConverging THEN NothingChanged ELSE unreached

C23_Step ==
    /\ \A c \in ProvideCalls :
          (CONFIG # <<>> /\ c.solver.fail_at # 0 /\ ProvideLiquidity(c.assets, c.solver))
             => /\ C23_AbortedOr(
                       provide_liquidity(Config, now, bank, total_supply, c.assets, c.solver)
                         = provide_liquidity(Config, now, bank, total_supply, c.assets,
                                             C23_Converging(c.solver)))
                /\ (c.solver.fail_at = 1 /\ Len(c.assets) = 2
                       /\ c.assets[1] > 0 /\ c.assets[2] > 0)
                      => last'.err = "calc_d is not converging"
    /\ \A c \in SwapCalls :
          (CONFIG # <<>> /\ c.solver.fail_at # 0
             /\ Swap(c.offer, c.limits.belief_price, c.limits.max_spread, c.solver))
             => C23_AbortedOr(
                    swap(Config, now, bank, total_supply, c.offer, c.limits.belief_price,
                         c.limits.max_spread, c.solver)
                      = swap(Config, now, bank, total_supply, c.offer, c.limits.belief_price,
                             c.limits.max_spread, C23_Converging(c.solver)))
    /\ \A c \in WithdrawCalls :
          (CONFIG # <<>> /\ c.solver.fail_at # 0
             /\ WithdrawLiquidity(c.sender, lp.user \div c.part, c.assets, c.solver))
             => /\ C23_AbortedOr(FALSE)
                /\ last'.err = "calc_d is not converging"

C23_NoUnconvergedValue == [][C23_Step]_vars

\* each of the three entry points has aborted on a solver that did not
\* converge; here a withdrawal from a pool that users hold shares of
C23_Witness ==
    /\ CONFIG # <<>>
    /\ last.op = "withdraw_liquidity"
    /\ last.err = "calc_d is not converging"
    /\ lp.user > 0
    /\ PriceState.xcp > 0

(***************************************************************************)
(* C25: provide_liquidity on a pool that holds liquidity invokes           *)
(* update_price if and only if the trade price implied by the deposit      *)
(* deviates from the pool's last price; otherwise oracle_price,            *)
(* last_price, price_scale, xcp_profit, last_price_update and the          *)
(* cumulative prices are as before and only xcp is updated.                *)
(***************************************************************************)
\* the share of a later deposit as a Decimal, before it is converted
C25_Share(assets, solver) ==
    LET pools == query_pools(bank)
        deposits == <<with_precision(assets[1], Precisions[1]),
                      with_precision(assets[2], Precisions[2])>>
        price_scale == PriceState.price_scale
        amp_gamma == get_amp_gamma(PoolState, now)
        new_d == calc_d(<<pools[1] + deposits[1],
                          MulDiv(pools[2] + deposits[2], price_scale, ONE)>>,
                        amp_gamma, At(solver, 1)).v
        old_xp == <<pools[1], MulDiv(pools[2], price_scale, ONE)>>
        old_d == calc_d(old_xp, amp_gamma, At(solver, 2)).v
        total_share == with_precision(total_supply, LP_TOKEN_PRECISION)
    IN  MulDiv(Max(MulDiv(total_share, new_d, old_d) - total_share, 0),
               ONE - calc_provide_fee(<<deposits[1], MulDiv(deposits[2], price_scale, ONE)>>,
                                      old_xp, Config.pool_params),
               ONE)

\* assets_diff: how far each amount of the deposit is from that asset's part
\* of the balances that the share stands for
C25_AssetsDiff(assets, solver) ==
    LET pools == query_pools(bank)
        deposits == <<with_precision(assets[1], Precisions[1]),
                      with_precision(assets[2], Precisions[2])>>
        share == C25_Share(assets, solver)
        share_ratio ==
            MulDiv(share, ONE, with_precision(total_supply, LP_TOKEN_PRECISION) + share)
    IN  <<AbsDiff(deposits[1], MulDiv(pools[1] + deposits[1], share_ratio, ONE)),
          AbsDiff(deposits[2],
                  MulDiv(MulDiv(MulDiv(pools[2] + deposits[2], PriceState.price_scale, ONE),
                                share_ratio, ONE),
                         ONE, PriceState.price_scale))>>

\* a successful deposit of assets into a pool that holds liquidity
C25_Deposit(assets, solver) ==
    /\ CONFIG # <<>>
    /\ total_supply > 0
    /\ Len(assets) = 2
    /\ ProvideLiquidity(assets, solver)
    /\ last'.ok

\* update_price ran in the call
C25_Updated == last'.price # <<>>

\* but for xcp the stored Config is as it was
C25_OnlyXcp ==
    CONFIG' = <<[Config EXCEPT !.pool_state.price_state.xcp =
                                   CONFIG'[1].pool_state.price_state.xcp]>>

\* the deposit implies a trade, at a price other than the pool's last price
C25_PriceDeviates(assets, solver) ==
    /\ C25_AssetsDiff(assets, solver)[2] # 0
    /\ MulDiv(C25_AssetsDiff(assets, solver)[1], ONE, C25_AssetsDiff(assets, solver)[2])
          # PriceState.last_price

C25_OriginalStep ==
    \A c \in ProvideCalls :
        C25_Deposit(c.assets, c.solver) =>
            /\ C25_Updated <=> C25_PriceDeviates(c.assets, c.solver)
            /\ ~C25_Updated => C25_OnlyXcp

C25_Original == [][C25_OriginalStep]_vars

\* Amended: update_price is invoked if and only if the deposit's amount of
\* the second asset differs from that asset's part of the balanced share
\* (assets_diff[1] is not zero), whether or not the implied price differs
\* from the pool's last price; it then records the implied price as
\* last_price at the block time.  Otherwise only xcp is updated.
C25_AmendedStep ==
    \A c \in ProvideCalls :
        C25_Deposit(c.assets, c.solver) =>
            /\ C25_Updated <=> C25_AssetsDiff(c.assets, c.solver)[2] # 0
            /\ C25_Updated =>
                  /\ CONFIG'[1].pool_state.price_state.last_price_update = now
                  /\ CONFIG'[1].pool_state.price_state.last_price
                        = MulDiv(C25_AssetsDiff(c.assets, c.solver)[1], ONE,
                                 C25_AssetsDiff(c.assets, c.solver)[2])
            /\ ~C25_Updated => C25_OnlyXcp

C25_Amended == [][C25_AmendedStep]_vars

\* a deposit whose implied price was the pool's last price ran update_price
\* all the same, later than the price was last updated
C25_Witness ==
    /\ CONFIG # <<>>
    /\ last.op = "provide_liquidity" /\ last.ok
    /\ last.messages.mint[1] = 0
    /\ last.price # <<>>
    /\ PriceState.last_price = ONE
    /\ PriceState.last_price_update = now
    /\ now > StartTime

(***************************************************************************)
(* C26: in the staking contract, when deposits and shares exist, Enter     *)
(* with amount a mints floor(a * total_shares / total_deposit) xASTRO,     *)
(* total_deposit taken before a is added, and Leave with x xASTRO burns x  *)
(* and pays floor(x * total_deposit / total_shares) ASTRO to the sender.   *)
(***************************************************************************)
\* a call of the staking contract has succeeded in this step
Staked(op) ==
    /\ staking'.calls = staking.calls + 1
    /\ staking'.last.op = op
    /\ staking'.last.r.ok

C26_Step ==
    LET total_deposit == staking.astro[StakingContract]
        total_shares == xastro_supply(staking)
        call == staking'.last
        a == call.funds.amount
    IN  /\ (Staked("enter") /\ total_deposit > 0 /\ total_shares > 0) =>
              LET minted == (a * total_shares) \div total_deposit
              IN  /\ xastro_supply(staking') = total_shares + minted
                  /\ staking'.xastro[call.receiver] = staking.xastro[call.receiver] + minted
                  /\ staking'.xastro[StakingContract] = staking.xastro[StakingContract]
                  /\ staking'.astro[StakingContract] = total_deposit + a
                  /\ staking'.astro[call.sender] = staking.astro[call.sender] - a
                  /\ minted > 0
        /\ Staked("leave") =>
              LET paid == (a * total_deposit) \div total_shares
              IN  /\ xastro_supply(staking') = total_shares - a
                  /\ staking'.xastro[call.sender] = staking.xastro[call.sender] - a
                  /\ staking'.xastro[StakingContract] = staking.xastro[StakingContract]
                  /\ staking'.astro[call.sender] = staking.astro[call.sender] + paid
                  /\ staking'.astro[StakingContract] = total_deposit - paid

C26_EnterAndLeave == [][C26_Step]_vars

\* after rewards have reached the contract a stake was taken for fewer
\* shares than its ASTRO, rounded down
C26_Witness ==
    /\ staking.last.op = "enter"
    /\ staking.last.r.ok
    /\ staking.last.r.mint_self = 0
    /\ staking.last.r.minted < staking.last.funds.amount
    /\ staking.last.r.minted * staking.astro[StakingContract]
          # staking.last.funds.amount * xastro_supply(staking)

(***************************************************************************)
(* C4: a promote is accepted only when no promotion is in progress; one    *)
(* issued while now < future_time is rejected, nothing is saved and        *)
(* initial, future, initial_time and future_time keep their values.        *)
(***************************************************************************)
C4_Step ==
    (CONFIG # <<>> /\ Called("Promote") /\ Promoting(PoolState, now))
        => (~last'.ok /\ ~last'.saved /\ CONFIG' = CONFIG)

C4_PromoteOnlyWhenStable == [][C4_Step]_vars

\* a promote that nothing but the promotion in progress stands against was rejected
C4_Witness ==
    /\ CONFIG # <<>> /\ last.op = "Promote" /\ ~last.ok
    /\ Promoting(PoolState, now)
    /\ update_config(Config, now, FactoryOwner, KeepMsg(MIN_AMP_CHANGING_TIME)).err
          = "PromotionInProgress"

(***************************************************************************)
(* C5: a promote whose window next_time - now is shorter than 86400        *)
(* seconds is rejected and changes nothing, so after an accepted promote   *)
(* future_time - initial_time >= 86400.                                    *)
(***************************************************************************)
C5_MinChangingTime ==
    CONFIG # <<>> =>
        /\ (last.op = "Promote" /\ last.ok)
              => PoolState.future_time - PoolState.initial_time >= 86400
        /\ \A w \in {0, 1, 43200, 86399} :
              LET r == update_config(Config, now, FactoryOwner, KeepMsg(w))
              IN  ~r.ok /\ ~r.saved /\ r.config = CONFIG

\* a promote over exactly the shortest window was accepted
C5_Witness ==
    /\ CONFIG # <<>> /\ last.op = "Promote" /\ last.ok
    /\ PoolState.future_time - PoolState.initial_time = 86400

(***************************************************************************)
(* C6: every accepted promote has its target amp and gamma within their    *)
(* ranges and within 10% of the values in force, and get_amp_gamma(t) is   *)
(* within the ranges.  As claimed, for every t; as amended, for every t    *)
(* from the block time of instantiate on.                                  *)
(***************************************************************************)
C6_AcceptedTargets ==
    \A p \in PromoteMsgs(now) :
        LET r == update_config(Config, now, FactoryOwner, p)
            cur == get_amp_gamma(PoolState, now)
        IN  r.ok => /\ InBounds([amp |-> p.promote.next_amp, gamma |-> p.promote.next_gamma])
                    /\ 10 * AbsDiff(p.promote.next_amp, cur.amp) <= cur.amp
                    /\ 10 * AbsDiff(p.promote.next_gamma, cur.gamma) <= cur.gamma
                    /\ r.config[1].pool_state.future
                          = [amp |-> p.promote.next_amp, gamma |-> p.promote.next_gamma]

Frozen(ps, t0) ==
    /\ ps.initial = ps.future
    /\ \A t \in ProbeTimes(ps) : t >= t0 => get_amp_gamma(ps, t) = ps.future

C7_Stop ==
    (CONFIG # <<>> /\ Called("StopChangingAmpGamma") /\ last'.ok
     /\ Promoting(PoolState, now))
        => /\ PoolState'.initial = get_amp_gamma(PoolState, now)
           /\ PoolState'.future = get_amp_gamma(PoolState, now)
           /\ PoolState'.future_time = now
           /\ Frozen(PoolState', now)

C7_Stays ==
    (CONFIG # <<>> /\ Frozen(PoolState, now) /\ ~(Called("Promote") /\ last'.ok))
        => (Frozen(PoolState', now') /\ PoolState'.future = PoolState.future)

C7_StopFreezes == [][C7_Stop /\ C7_Stays]_vars

\* a promotion of amp from MidAmp was stopped half-way and time has passed since
C7_Witness ==
    /\ CONFIG # <<>> /\ last.op = "StopChangingAmpGamma" /\ last.ok
    /\ PoolState.future.amp = MidAmp + MaxStep(MidAmp) \div 2
    /\ PoolState.initial = PoolState.future
    /\ now > PoolState.future_time

(***************************************************************************)
(* C8: get_amp_gamma(t) is initial for t <= initial_time, future for       *)
(* t >= future_time and, between the two, for amp and gamma each,          *)
(* initial + (future - initial) * (t - initial_time) /                     *)
(* (future_time - initial_time), also when future < initial.               *)
(***************************************************************************)
C8_Interpolation ==
    CONFIG # <<>> =>
        \A t \in ProbeTimes(PoolState) :
            LET ps == PoolState
                r == get_amp_gamma(ps, t)
                passed == t - ps.initial_time
                total == ps.future_time - ps.initial_time
            IN  /\ t <= ps.initial_time => r = ps.initial
                /\ t >= ps.future_time => r = ps.future
                /\ (ps.initial_time < t /\ t < ps.future_time)
                      => /\ Linear(ps.initial.amp, ps.future.amp, passed, total, r.amp)
                         /\ Linear(ps.initial.gamma, ps.future.gamma, passed, total, r.gamma)

\* gamma is being lowered and, part of the way through, lies strictly between
C8_Witness ==
    /\ CONFIG # <<>>
    /\ PoolState.initial_time < now /\ now < PoolState.future_time
    /\ PoolState.future.gamma < get_amp_gamma(PoolState, now).gamma
    /\ get_amp_gamma(PoolState, now).gamma < PoolState.initial.gamma

(***************************************************************************)
(* C9: right after a successful instantiate, price_scale is the supplied   *)
(* one and no promotion is in progress.  As claimed, initial = future; as  *)
(* amended, future is the supplied pair with future_time the block time,   *)
(* while initial is AmpGamma::default() with initial_time 0.               *)
(***************************************************************************)
JustInstantiated == CONFIG # <<>> /\ last.op = "instantiate" /\ last.ok

C9_Original ==
    JustInstantiated =>
        /\ PoolState.initial = PoolState.future
        /\ ~Promoting(PoolState, now)
        /\ PoolState.price_state.price_scale \in {ONE, 2 * ONE}

C9_Amended ==
    /\ \A msg \in InstantiateMsgs :
          LET r == instantiate(now, msg)
              ps == r.config[1].pool_state
              given == msg.init_params[1]
          IN  r.ok => /\ r.saved
                      /\ ps.future = [amp |-> given.amp, gamma |-> given.gamma]
                      /\ ps.future_time = now
                      /\ ps.initial = AmpGamma_default /\ ps.initial_time = 0
                      /\ \A t \in {now, now + 1, now + HalfDay} :
                            get_amp_gamma(ps, t) = ps.future
                      /\ ps.price_state.price_scale = given.price_scale
    /\ JustInstantiated =>
          /\ \E msg \in InstantiateMsgs :
                CONFIG = instantiate(PoolState.future_time, msg).config
          /\ ~Promoting(PoolState, now)

\* a pool instantiated with a price scale other than one
C9_Witness ==
    JustInstantiated /\ PoolState.price_state.price_scale = 2 * ONE
                     /\ PoolState.future = [amp |-> MidAmp, gamma |-> MidGamma]

(***************************************************************************)
(* C10: in every reachable pool state initial_time <= future_time.         *)
(***************************************************************************)
C10_TimesOrdered ==
    CONFIG # <<>> => PoolState.initial_time <= PoolState.future_time

\* a promotion stopped in the block that started it: the two times are equal
C10_Witness ==
    /\ CONFIG # <<>> /\ last.op = "StopChangingAmpGamma" /\ last.ok
    /\ PoolState.initial_time = PoolState.future_time
    /\ PoolState.initial_time = now

(***************************************************************************)
(* The factory's registry.                                                 *)
(***************************************************************************)
\* the step is the successful reply that ends a transaction begun by op
FactoryRegistered(op) ==
    /\ factory.pending # <<>> /\ factory.pending[1].op = op
    /\ FactoryReply
    /\ factory'.last.ok

\* C27: after CreatePair for assets (A, B) and the successful reply of the
\* pair's instantiation, the address of the new pair contract is registered
\* in PAIRS under the key of (A, B), and QueryMsg::Pair for (A, B) returns
\* that pair.
C27_Step ==
    \A a \in AssetPairs :
        (FactoryRegistered("create_pair") /\ factory.pending[1].sub_msg.asset_infos = a) =>
            /\ factory.last.op = "create_pair" /\ factory.last.ok /\ factory.last.asset_infos = a
            /\ factory'.last.address = Len(factory.pair_contracts) + 1
            /\ factory'.pair_contracts[factory'.last.address] = a
            /\ factory'.store.pairs[pair_key(a)] = <<factory'.last.address>>
            /\ query_pair(factory'.store, factory'.pair_contracts, a).ok
            /\ query_pair(factory'.store, factory'.pair_contracts, a).info =
                   [contract_addr |-> factory'.last.address, asset_infos |-> a]

C27_CreatedPairIsRegistered == [][C27_Step]_vars

\* a second pair has been created and registered, under the key of its
\* assets given in the other order than the key has them
C27_Witness ==
    /\ factory.last.op = "reply" /\ factory.last.tx = "create_pair" /\ factory.last.ok
    /\ factory.last.address = 2
    /\ factory.last.asset_infos = <<"asset0001", "asset0000">>
    /\ factory.store.pairs[<<"asset0000", "asset0001">>] = <<2>>
    /\ query_pair(factory.store, factory.pair_contracts, factory.last.asset_infos).ok

\* the state of the factory is as before the call
FactoryUnchanged ==
    /\ factory'.store = factory.store
    /\ factory'.pair_contracts = factory.pair_contracts
    /\ factory'.pending = factory.pending
    /\ factory'.calls = factory.calls

\* the call of an owner-only entry point by this sender: it succeeds only
\* for the owner, and fails with Unauthorized, changing nothing, otherwise
C28_OwnerOnly(sender) ==
    /\ factory'.last.sender = sender
    /\ factory'.last.ok => sender = factory.store.config.owner
    /\ sender # factory.store.config.owner =>
           ~factory'.last.ok /\ factory'.last.err = "Unauthorized" /\ FactoryUnchanged

\* every owner-only entry point refuses this sender in this storage
C28_Rejected(store, sender) ==
    /\ \A param \in FactoryUpdateConfigMsgs \cup {FactoryNoUpdate} :
           execute_update_config(store, sender, param) = FactoryErr("Unauthorized", store)
    /\ \A pc \in PairConfigs :
           execute_update_pair_config(store, sender, pc) = FactoryErr("Unauthorized", store)
    /\ \A t \in PairTypes :
           execute_remove_pair_config(store, sender, t) = FactoryErr("Unauthorized", store)
    /\ \A a \in AssetPairs : deregister(store, sender, a) = FactoryErr("Unauthorized", store)

\* C28: UpdateConfig, UpdatePairConfig, RemovePairConfig and Deregister
\* succeed only when sent by the current config.owner; from any other
\* sender they fail with Unauthorized and leave the factory's state
\* unchanged; once UpdateConfig has set a new owner, the previous owner is
\* rejected.
C28_Step ==
    /\ \A sender \in FactorySenders :
          /\ \A param \in FactoryUpdateConfigMsgs :
                 FactoryUpdateConfig(sender, param) =>
                    /\ C28_OwnerOnly(sender)
                    /\ (factory'.last.ok /\ param.owner # <<>> /\ param.owner[1] # sender) =>
                           /\ factory'.store.config.owner = param.owner[1]
                           /\ C28_Rejected(factory'.store, sender)
          /\ \A pc \in PairConfigs : FactoryUpdatePairConfig(sender, pc) => C28_OwnerOnly(sender)
          /\ \A t \in PairTypes : FactoryRemovePairConfig(sender, t) => C28_OwnerOnly(sender)
          /\ \A a \in AssetPairs : Deregister(sender, a) => C28_OwnerOnly(sender)

C28_OnlyOwner == [][C28_Step]_vars

\* the first owner, replaced, is refused the removal of a registered pair
C28_Witness ==
    /\ factory.store.config.owner = "new_owner"
    /\ factory.last.op = "deregister" /\ factory.last.sender = FactoryOwner
    /\ ~factory.last.ok /\ factory.last.err = "Unauthorized"
    /\ factory.store.pairs[pair_key(factory.last.asset_infos)] # <<>>

\* C29: the factory holds at most one pair per key.  CreatePair or
\* CreatePairStable for assets whose key has a registered pair fails with
\* PairWasCreated, and a reply for a key that is already registered fails
\* with PairWasRegistered, both leaving PAIRS unchanged; a registered key
\* changes only by a Deregister of the owner, which frees it.
C29_Step ==
    /\ \A a \in AssetPairs :
          ((CreatePair("user", a) \/ CreatePairStable("user", a))
             /\ factory.store.pairs[pair_key(a)] # <<>>) =>
                /\ ~factory'.last.ok /\ factory'.last.err = "PairWasCreated"
                /\ FactoryUnchanged
    /\ (/\ FactoryReply
        /\ factory.store.tmp_pair_info # <<>>
        /\ factory.store.pairs[factory.store.tmp_pair_info[1].pair_key] # <<>>) =>
           /\ ~factory'.last.ok /\ factory'.last.err = "PairWasRegistered"
           /\ factory'.store.pairs = factory.store.pairs
           /\ factory'.pair_contracts = factory.pair_contracts
    /\ \A k \in PairKeys :
          (factory.store.pairs[k] # <<>> /\ factory'.store.pairs[k] # factory.store.pairs[k]) =>
             /\ factory'.last.op = "deregister" /\ factory'.last.ok
             /\ factory'.last.sender = factory.store.config.owner
             /\ pair_key(factory'.last.asset_infos) = k
             /\ factory'.store.pairs[k] = <<>>

C29_OnePairPerKey == [][C29_Step]_vars

\* a reply met its key registered and failed, while another key is free
\* again after a Deregister
C29_Witness ==
    /\ factory.last.op = "reply" /\ ~factory.last.ok /\ factory.last.err = "PairWasRegistered"
    /\ factory.store.pairs[factory.store.tmp_pair_info[1].pair_key] # <<>>
    /\ \E k \in PairKeys : factory.store.pairs[k] = <<>>
    /\ Len(factory.pair_contracts) = 2

(***************************************************************************)
(* The stored xcp against the stored price_scale.                          *)
(***************************************************************************)
\* get_xcp(D, price_scale) with D solved, under this curve, from these
\* balances normalised with the price_scale of this Config
C30_Xcp(config, t, balances, curve) ==
    get_xcp(calc_d(C21_Internal(balances, config.pool_state.price_state.price_scale),
                   get_amp_gamma(config.pool_state, t),
                   [curve |-> curve, converged |-> TRUE]).v,
            config.pool_state.price_state.price_scale)

\* the step is this successful deposit
C30_Provided(c) == CONFIG # <<>> /\ ProvideLiquidity(c.assets, c.solver) /\ last'.ok

\* the step is this successful withdrawal
C30_Withdrawn(c) ==
    /\ CONFIG # <<>>
    /\ WithdrawLiquidity(c.sender, lp.user \div c.part, c.assets, c.solver)
    /\ last'.ok

\* the xcp stored by the step is the one of the stored price_scale and the
\* balances the step leaves, up to the rounding of the normalisation
C30_Consistent(curve) ==
    AbsDiff(CONFIG'[1].pool_state.price_state.xcp, C30_Xcp(CONFIG'[1], now', bank', curve))
        <= RoundingTolerance

\* the deposit ran update_price and the repeg changed price_scale
C30_Repegged ==
    CONFIG'[1].pool_state.price_state.price_scale # CONFIG[1].pool_state.price_state.price_scale

\* C30: after every successful provide_liquidity or withdraw_liquidity the
\* persisted price_state.xcp equals get_xcp(D, price_scale), D solved from
\* the balances after the operation normalised with the price_scale of the
\* same persisted state, also when the provide ran update_price and the
\* repeg changed price_scale.
C30_Step ==
    /\ \A c \in ProvideCalls : C30_Provided(c) => C30_Consistent(c.solver.curve)
    /\ \A c \in WithdrawCalls : C30_Withdrawn(c) => C30_Consistent(c.solver.curve)

C30_XcpOfStoredScale == [][C30_Step]_vars

\* the same, for withdrawals and for deposits that leave price_scale as it
\* was
C30_UnmovedStep ==
    /\ \A c \in ProvideCalls :
          (C30_Provided(c) /\ ~C30_Repegged) => C30_Consistent(c.solver.curve)
    /\ \A c \in WithdrawCalls :
          C30_Withdrawn(c) => ~C30_Repegged /\ C30_Consistent(c.solver.curve)

C30_XcpOfUnmovedScale == [][C30_UnmovedStep]_vars

\* a deposit whose repeg changes price_scale stores the xcp computed before
\* update_price ran, from the price_scale it replaced
C30_StaleStep ==
    \A c \in ProvideCalls :
        (C30_Provided(c) /\ C30_Repegged) =>
            CONFIG'[1].pool_state.price_state.xcp
                = get_xcp(calc_d(C21_Internal(bank', PriceState.price_scale),
                                 get_amp_gamma(PoolState, now),
                                 [curve |-> c.solver.curve, converged |-> TRUE]).v,
                          PriceState.price_scale)

C30_XcpOfReplacedScale == [][C30_StaleStep]_vars

(***************************************************************************)
(* update_price applied on its own.                                        *)
(***************************************************************************)
\* update_price has been applied to drawn arguments
PriceApplied == applied.f = "update_price" /\ applied.out # <<>>

\* C31: for every PoolParams accepted by validation, ma_half_time at either
\* end of MA_HALF_TIME_LIMITS included, and any elapsed time, update_price
\* computes the decay and the blended oracle_price without failing: it
\* returns an error only when the solver did not converge.
C31_OnlySolverFails ==
    PriceApplied =>
        /\ PoolParamsValid(applied.args.pool_params)
        /\ (~applied.out[1].ok =>
               /\ applied.args.solver.fail_at # 0
               /\ applied.out[1].err = "calc_d is not converging")

\* the same for every accepted ma_half_time but zero
C31_OnlySolverFailsAboveZero ==
    (PriceApplied /\ applied.args.pool_params.ma_half_time > 0) =>
        (~applied.out[1].ok =>
            /\ applied.args.solver.fail_at # 0
            /\ applied.out[1].err = "calc_d is not converging")

\* the smaller and the larger of the previous average and the trade's price
C32_Low == Min(applied.args.oracle_price, applied.args.last_price)

C32_High == Max(applied.args.oracle_price, applied.args.last_price)

C32_Oracle == applied.out[1].v.pool_state.price_state.oracle_price

\* C32 as stated: after update_price the new oracle_price lies between the
\* previous oracle_price and the supplied last_price, both included, and is
\* the previous oracle_price when no time has elapsed since
\* last_price_update.
C32_Original ==
    (PriceApplied /\ applied.out[1].ok) =>
        /\ C32_Low <= C32_Oracle /\ C32_Oracle <= C32_High
        /\ (applied.args.elapsed = 0 => C32_Oracle = applied.args.oracle_price)

\* C32 amended: the two products of the blend are each rounded down, so the
\* new oracle_price is at most one unit of the last decimal place below the
\* smaller of the two prices, never above the larger, and is the previous
\* oracle_price when no time has elapsed.
C32_Amended ==
    (PriceApplied /\ applied.out[1].ok) =>
        /\ C32_Low - 1 <= C32_Oracle /\ C32_Oracle <= C32_High
        /\ (applied.args.elapsed = 0 => C32_Oracle = applied.args.oracle_price)

\* half a half time after the last update, an average and a trade both at
\* one and a millionth are blended to one
C32_Witness ==
    /\ PriceApplied /\ applied.out[1].ok
    /\ applied.args.elapsed = HalfDay /\ applied.args.pool_params.ma_half_time = MIN_AMP_CHANGING_TIME
    /\ applied.args.oracle_price = ONE + 1 /\ applied.args.last_price = ONE + 1
    /\ C32_Oracle = ONE

(***************************************************************************)
(* The pool's LP token address.                                            *)
(***************************************************************************)
\* the reply of the LP token's instantiation, carrying response data
C33_TokenReply(msg) == msg.id = INSTANTIATE_TOKEN_REPLY_ID /\ msg.data # <<>>

\* C33: the LP token address is set exactly once.  A reply with
\* INSTANTIATE_TOKEN_REPLY_ID and response data stores the address only
\* while liquidity_token is empty; a second such reply fails with
\* Unauthorized, any other reply fails with FailedToParseReply, and a
\* failed reply leaves Config unchanged.  No other step changes a stored
\* address.
C33_Step ==
    /\ \A msg \in ReplyMsgs :
          Reply(msg) =>
             /\ (C33_TokenReply(msg) /\ Config.liquidity_token = "") =>
                    /\ last'.ok <=> msg.data[1] # Unparsable
                    /\ last'.ok => CONFIG' = <<[Config EXCEPT !.liquidity_token = msg.data[1]]>>
             /\ (C33_TokenReply(msg) /\ Config.liquidity_token # "") =>
                    ~last'.ok /\ last'.err = "Unauthorized"
             /\ ~C33_TokenReply(msg) => ~last'.ok /\ last'.err = "FailedToParseReply"
             /\ ~last'.ok => CONFIG' = CONFIG
    /\ (CONFIG # <<>> /\ CONFIG' # <<>> /\ CONFIG'[1].liquidity_token # Config.liquidity_token) =>
          /\ Config.liquidity_token = ""
          /\ last'.op = "reply" /\ last'.ok
    /\ (CONFIG = <<>> /\ CONFIG' # <<>>) => CONFIG'[1].liquidity_token = ""

C33_TokenSetOnce == [][C33_Step]_vars

\* a second reply of the token's instantiation was refused and the address
\* of the first is kept
C33_Witness ==
    /\ CONFIG # <<>> /\ Config.liquidity_token = "other_token"
    /\ last.op = "reply" /\ ~last.ok /\ last.err = "Unauthorized"

(***************************************************************************)
(* The registration of a stable pair.                                      *)
(***************************************************************************)
\* the keys under which this address is registered
C34_KeysOf(pairs, address) == {k \in PairKeys : pairs[k] = <<address>>}

\* C34: after CreatePairStable for assets (A, B) and the successful reply
\* of the pair's instantiation, the new stable pair is registered in PAIRS
\* under the key of (A, B), the assets given to that same call, and under
\* no other key, whatever CreatePair calls came before.
C34_Step ==
    \A a \in AssetPairs :
        (FactoryRegistered("create_pair_stable") /\ factory.pending[1].sub_msg.asset_infos = a) =>
            /\ factory'.pair_contracts[factory'.last.address] = a
            /\ C34_KeysOf(factory'.store.pairs, factory'.last.address) = {pair_key(a)}

C34_StablePairIsRegistered == [][C34_Step]_vars

\* what the reply of a CreatePairStable does: it registers the new pair
\* under the key that the last CreatePair left in TMP_PAIR_INFO
C34_StaleStep ==
    FactoryRegistered("create_pair_stable") =>
        /\ factory.store.tmp_pair_info # <<>>
        /\ C34_KeysOf(factory'.store.pairs, factory'.last.address)
               = {factory.store.tmp_pair_info[1].pair_key}

C34_StablePairUnderLastKey == [][C34_StaleStep]_vars

\* a stable pair of two assets is registered under the key of two others
C34_Misregistered ==
    /\ factory.last.op = "reply" /\ factory.last.tx = "create_pair_stable" /\ factory.last.ok
    /\ factory.last.asset_infos = <<"asset0000", "asset0001">>
    /\ factory.store.pairs[<<"asset0000", "asset0002">>] = <<factory.last.address>>
    /\ factory.store.pairs[<<"asset0000", "asset0001">>] = <<>>

(***************************************************************************)
(* The staking contract's ratio of deposit to shares, and its first stake. *)
(***************************************************************************)
\* C35: across Enter and Leave calls and transfers of ASTRO into the
\* staking contract, once shares exist the ratio total_deposit /
\* total_shares never decreases: the rounding down of the shares minted by
\* Enter and of the ASTRO returned by Leave favours the remaining stakers.
C35_Step ==
    (xastro_supply(staking) > 0 /\ xastro_supply(staking') > 0) =>
        staking'.astro[StakingContract] * xastro_supply(staking)
            >= staking.astro[StakingContract] * xastro_supply(staking')

C35_RatioNeverDecreases == [][C35_Step]_vars

\* a Leave was paid a rounded-down amount and the ratio is above one
C35_Witness ==
    /\ staking.last.op = "leave" /\ staking.last.r.ok
    /\ staking.last.r.returned > staking.last.r.burnt
    /\ xastro_supply(staking) > 0
    /\ staking.astro[StakingContract] > xastro_supply(staking)
    /\ (staking.last.r.burnt * (staking.astro[StakingContract] + staking.last.r.returned))
          % (xastro_supply(staking) + staking.last.r.burnt) # 0

\* the Enter is a first stake: no xASTRO exists or the contract holds no
\* ASTRO but what the call brings
C36_First == xastro_supply(staking) = 0 \/ staking.astro[StakingContract] = 0

\* C36: when the xASTRO supply or the contract's ASTRO deposit is zero, an
\* Enter with an amount up to MINIMUM_STAKE_AMOUNT fails with
\* MinimumStakeAmountError and mints nothing; a larger one mints
\* MINIMUM_STAKE_AMOUNT xASTRO that stay with the staking contract and
\* amount - MINIMUM_STAKE_AMOUNT xASTRO for the staker.
C36_Step ==
    \A sender \in Stakers, receiver \in Stakers, funds \in EnterFunds :
        (/\ Enter(sender, receiver, funds)
         /\ C36_First
         /\ funds.denom = "astro" /\ funds.amount > 0) =>
            IF funds.amount <= MINIMUM_STAKE_AMOUNT
            THEN /\ ~staking'.last.r.ok
                 /\ staking'.last.r.err = "MinimumStakeAmountError"
                 /\ staking'.xastro = staking.xastro
                 /\ staking'.astro = staking.astro
            ELSE /\ staking'.last.r.ok
                 /\ staking'.xastro[StakingContract]
                       = staking.xastro[StakingContract] + MINIMUM_STAKE_AMOUNT
                 /\ staking'.xastro[receiver]
                       = staking.xastro[receiver] + funds.amount - MINIMUM_STAKE_AMOUNT
                 /\ xastro_supply(staking') = xastro_supply(staking) + funds.amount
                 /\ staking'.astro[StakingContract] = staking.astro[StakingContract] + funds.amount

TokenDebits == {"transfer", "burn", "send", "transfer_from", "burn_from", "send_from"}
TokenCalled == token'.last.op \in TokenDebits \cup {"mint"} /\ token'.last # token.last

\* C37: in the xASTRO token the total supply of TOKEN_INFO equals the sum of
\* the balances of all accounts, in every state the token reaches
C37_SupplyIsSumOfBalances ==
    token.store.info # <<>> => token_supply(token.store) = balances_sum(token.store)

\* Mint, Burn, BurnFrom, Transfer, TransferFrom, Send and SendFrom leave the
\* difference between the supply and the sum of the balances as it was
C37_KeepStep ==
    TokenCalled =>
        token_supply(token'.store) - balances_sum(token'.store)
            = token_supply(token.store) - balances_sum(token.store)
C37_OperationsKeepTheDifference == [][C37_KeepStep]_vars

\* an operation that asks for more than the account holds fails, and the
\* balances, the allowances, the supply and its history stay as they were
C37_OverdrawStep ==
    (/\ TokenCalled
     /\ token'.last.op \in TokenDebits
     /\ token'.last.amount > token.store.balances[token'.last.from])
        => ~token'.last.ok /\ token'.store = token.store
C37_OverdrawFails == [][C37_OverdrawStep]_vars

\* a supply above the sum of the balances, after a transfer that succeeded
C37_Inflated ==
    /\ token.last.op = "transfer" /\ token.last.ok
    /\ token_supply(token.store) > balances_sum(token.store)

\* an overdrawing burn has failed
C37_Overdrawn ==
    /\ token.last.op = "burn_from" /\ ~token.last.ok /\ token.last.err = "Overflow"

(***************************************************************************)
(* The xASTRO token: the history of the supply.                            *)
(***************************************************************************)
\* the operations that change the supply
TokenSupplyOps == {"instantiate", "mint", "burn", "burn_from"}

\* a successful instantiate with a supply, Mint, Burn or BurnFrom leaves the
\* supply it ends with in TOTAL_SUPPLY_HISTORY under the height of the block
C38_RecordStep ==
    (/\ token'.last.op \in TokenSupplyOps
     /\ token'.calls = token.calls + 1
     /\ token_supply(token'.store) # 0 \/ token'.last.op # "instantiate")
        => token'.store.history[token.height] = <<token_supply(token'.store)>>

\* TotalSupplyAt(h) is the supply with which block h ended, for every block
\* that has ended, and the supply of the moment for the block under way
C38_AtEndOfBlock ==
    /\ \A h \in Heights :
          h < token.height => get_total_supply_at(token.store, h) = token.ends[h]
    /\ get_total_supply_at(token.store, token.height) = token_supply(token.store)

BalanceUpdated == applied.f = "update_user_balance" /\ applied.out # <<>>

\* C39: immediately after update_user_balance the user's debt to every proxy
\* of the pool is the proxy's rewards per share times the new amount, and
\* accumulate_pool_proxy_rewards returns zero for every proxy, whatever the
\* debts were before
C39_NoPendingProxyRewards ==
    BalanceUpdated =>
        LET out == applied.out[1]
            shares == out.pool.accumulated_proxy_rewards_per_share
        IN  /\ \A i \in DOMAIN shares :
                  hashmap_get(out.user.reward_debt_proxy, shares[i][1])
                      = <<decimal_checked_mul(shares[i][2], applied.args.amount)>>
            /\ out.pending.ok
            /\ \A i \in DOMAIN out.pending.v : out.pending.v[i][2] = 0

\* the same for a user who owed no proxy anything before the update
C39_NoPendingWithoutDebts ==
    (/\ BalanceUpdated
     /\ \A i \in DOMAIN applied.args.user.reward_debt_proxy :
           applied.args.user.reward_debt_proxy[i][2] = 0)
        => C39_NoPendingProxyRewards

\* what update_user_balance stores as the debt is the rewards per share
\* times the amount less the debt before, and what is pending after it is
\* the lesser of that product and the debt before
C39_DebtLessPreviousDebt ==
    BalanceUpdated =>
        LET out == applied.out[1]
            shares == out.pool.accumulated_proxy_rewards_per_share
        IN  \A i \in DOMAIN shares :
               LET product == decimal_checked_mul(shares[i][2], applied.args.amount)
                   before == hashmap_get(applied.args.user.reward_debt_proxy, shares[i][1])
                   debt == IF before = <<>> THEN 0 ELSE before[1]
               IN  /\ out.user.reward_debt_proxy[i] = <<shares[i][1], saturating_sub(product, debt)>>
                   /\ shares[i][2] # 0 =>
                         \E j \in DOMAIN out.pending.v :
                            out.pending.v[j] = <<shares[i][1], Min(product, debt)>>

\* a user who owed a proxy 1 has 1 pending right after the update
C39_Pending ==
    /\ BalanceUpdated
    /\ applied.out[1].pending.ok
    /\ \E i \in DOMAIN applied.out[1].pending.v : applied.out[1].pending.v[i][2] = 1

(***************************************************************************)
(* The oracle: the period between two updates.                             *)
(***************************************************************************)
\* an Update before the period has passed fails with WrongPeriod and leaves
\* PRICE_LAST as it was; one after it succeeds and stores the block time
C40_Step ==
    oracle'.last.op = "update" =>
        LET time_elapsed == oracle.time - oracle.price_last[1].block_timestamp_last
        IN  IF time_elapsed < PERIOD
            THEN /\ ~oracle'.last.ok /\ oracle'.last.err = "WrongPeriod"
                 /\ oracle'.price_last = oracle.price_last
                 /\ oracle'.updates = oracle.updates
            ELSE /\ oracle'.last.ok
                 /\ oracle'.price_last[1].block_timestamp_last = oracle.time
                 /\ oracle'.updates = Append(oracle.updates, oracle.time)

\* any two updates that succeeded are a period apart or more, and the last
\* of them is the time PRICE_LAST holds
C40_Apart ==
    /\ \A i, j \in DOMAIN oracle.updates :
          i < j => oracle.updates[j] - oracle.updates[i] >= PERIOD
    /\ oracle.updates # <<>> =>
          oracle.price_last[1].block_timestamp_last = oracle.updates[Len(oracle.updates)]

\* C40: the oracle's Update succeeds only when PERIOD seconds or more have
\* passed since block_timestamp_last and otherwise fails with WrongPeriod,
\* PRICE_LAST unchanged; a success sets block_timestamp_last to the block
\* time, so two successful updates are never less than PERIOD apart
C40_UpdatesAPeriodApart == [][C40_Step]_vars /\ []C40_Apart

\* two updates exactly a period apart, and a third attempt that came a second
\* too early
C40_Witness ==
    /\ Len(oracle.updates) = 2
    /\ oracle.updates[2] - oracle.updates[1] = PERIOD
    /\ oracle.time = oracle.updates[2] + PERIOD - 1
    /\ oracle.last.op = "update" /\ oracle.last.err = "WrongPeriod"

====
